---- MODULE Spec2Model ----
(***************************************************************************)
(* The retrieve -> rerank -> prompt assembly -> generate -> guardrail      *)
(* logic of the RAG workshop notebooks, as state machines over the cells   *)
(* of each notebook.  Backend services (knowledge-base retrieve, rerank,   *)
(* converse, invoke_endpoint, apply_guardrail) are the environment: each   *)
(* backend call either raises or replies with a JSON-like value drawn     *)
(* from a bounded set.                                                     *)
(*                                                                         *)
(* Python values are tagged records; a Python str is a sequence of         *)
(* one-character strings, so that iteration over a str, indexing into it   *)
(* and concatenation are what Python does.  An evaluation that may raise   *)
(* yields an outcome: Ret(v) or Exc(type, message).                        *)
(***************************************************************************)
EXTENDS Integers, Sequences, FiniteSets, TLC

VARIABLES
    nb,                  \* the notebook (or path of a notebook) being run
    pc,                  \* the cell the run has reached
    kp,                  \* a function called on its own: its arguments and outcome
    kb_reply,            \* what the retrieve backend did for the last request
    documents,           \* the list the retrieval function returned
    rerank_reply,        \* what the rerank backend did for the last request
    reranked_json,       \* the value rerank_results returned
    kb_context,          \* the context string interpolated into the prompt
    prompt,              \* the assembled prompt
    llm_reply,           \* what the generation backend did
    answer,              \* the text the generation function returned
    guardrail_reply,     \* what the apply_guardrail backend did
    guardrail_response,  \* the value apply_output_guardrail returned
    error,               \* the exception that left the cell, or NoError
    calls,               \* the backend requests issued so far, in order
    variables_json,      \* the content of the file "Lab 1/variables.json"
    kernel               \* each setup or evaluation notebook's cell position and globals

vars == <<nb, pc, kp, kb_reply, documents, rerank_reply, reranked_json,
          kb_context, prompt, llm_reply, answer, guardrail_reply,
          guardrail_response, error, calls, variables_json, kernel>>

-----------------------------------------------------------------------------
(* Bounds of the model *)

MaxDepth == 2
MaxPath == 3

-----------------------------------------------------------------------------
(* Python values *)

None == [t |-> "none"]
Str(s) == [t |-> "str", s |-> s]
Num(n) == [t |-> "int", n |-> n]
List(items) == [t |-> "list", items |-> items]
Dict(m) == [t |-> "dict", m |-> m]
EmptyMap == << >>

Unset == [t |-> "unset"]

(* Outcomes of an evaluation: a value, or an exception with its str() *)
Ret(v) == [k |-> "ret", v |-> v]
Exc(type, msg) == [k |-> "exc", exc |-> type, msg |-> msg]
NoError == [k |-> "none"]

(* Keys of a key path: a name (dict key) or an integer index *)
Name(s) == [kt |-> "name", name |-> s]
Idx(i) == [kt |-> "idx", i |-> i]

(* Python's seq[i] for -len <= i < len, on a 1-based TLA+ sequence *)
PyAt(seq, i) == IF i >= 0 THEN seq[i + 1] ELSE seq[Len(seq) + i + 1]
PyInRange(seq, i) == i >= -Len(seq) /\ i < Len(seq)

(* current[key] *)
PyGetItem(cur, key) ==
    CASE cur.t = "dict" ->
            IF key.kt = "name"
            THEN IF key.name \in DOMAIN cur.m
                 THEN Ret(cur.m[key.name])
                 ELSE Exc("KeyError", <<"'", key.name, "'">>)
            ELSE Exc("KeyError", <<"int key">>)
      [] cur.t = "list" ->
            IF key.kt = "idx"
            THEN IF PyInRange(cur.items, key.i)
                 THEN Ret(PyAt(cur.items, key.i))
                 ELSE Exc("IndexError", <<"list index out of range">>)
            ELSE Exc("TypeError", <<"list indices must be integers or slices, not str">>)
      [] cur.t = "str" ->
            IF key.kt = "idx"
            THEN IF PyInRange(cur.s, key.i)
                 THEN Ret(Str(<<PyAt(cur.s, key.i)>>))
                 ELSE Exc("IndexError", <<"string index out of range">>)
            ELSE Exc("TypeError", <<"string indices must be integers, not 'str'">>)
      [] cur.t = "int" -> Exc("TypeError", <<"'int' object is not subscriptable">>)
      [] OTHER -> Exc("TypeError", <<"'NoneType' object is not subscriptable">>)

(* bool(v) *)
PyTruthy(v) ==
    CASE v.t = "none" -> FALSE
      [] v.t = "str" -> Len(v.s) > 0
      [] v.t = "int" -> v.n # 0
      [] v.t = "list" -> Len(v.items) > 0
      [] OTHER -> DOMAIN v.m # {}

(* name in v, for a str literal name.  A str of the model is a sequence   *)
(* of text pieces; it contains name when name is one of its pieces.       *)
PyContains(name, v) ==
    CASE v.t = "dict" -> Ret(name \in DOMAIN v.m)
      [] v.t = "list" -> Ret(\E i \in 1..Len(v.items) : v.items[i] = Str(<<name>>))
      [] v.t = "str" -> Ret(\E i \in 1..Len(v.s) : v.s[i] = name)
      [] v.t = "int" -> Exc("TypeError", <<"argument of type 'int' is not iterable">>)
      [] OTHER -> Exc("TypeError", <<"argument of type 'NoneType' is not iterable">>)

(* the keys of a dict in its iteration order (one fixed order per dict) *)
KeysOf(m) ==
    CHOOSE q \in [1..Cardinality(DOMAIN m) -> DOMAIN m] :
        \A name \in DOMAIN m : \E i \in DOMAIN q : q[i] = name

(* the items a for loop or a comprehension over v visits *)
PyIter(v) ==
    CASE v.t = "list" -> Ret(v.items)
      [] v.t = "str" -> Ret([i \in 1..Len(v.s) |-> Str(<<v.s[i]>>)])
      [] v.t = "int" -> Exc("TypeError", <<"'int' object is not iterable">>)
      [] v.t = "none" -> Exc("TypeError", <<"'NoneType' object is not iterable">>)
      [] OTHER -> Ret([i \in 1..Len(KeysOf(v.m)) |-> Str(<<KeysOf(v.m)[i]>>)])

(* v.get(name, default): only a dict has get *)
PyGet(v, name, default) ==
    CASE v.t = "dict" -> Ret(IF name \in DOMAIN v.m THEN v.m[name] ELSE default)
      [] v.t = "list" -> Exc("AttributeError", <<"'list' object has no attribute 'get'">>)
      [] v.t = "str" -> Exc("AttributeError", <<"'str' object has no attribute 'get'">>)
      [] v.t = "int" -> Exc("AttributeError", <<"'int' object has no attribute 'get'">>)
      [] OTHER -> Exc("AttributeError", <<"'NoneType' object has no attribute 'get'">>)

RECURSIVE JoinPieces(_, _)
JoinPieces(sep, strs) ==
    IF strs = << >> THEN << >>
    ELSE IF Len(strs) = 1 THEN strs[1].s
    ELSE strs[1].s \o sep \o JoinPieces(sep, Tail(strs))

(* sep.join(items) for a sequence of values: every item must be a str *)
PyJoin(sep, items) ==
    IF \E i \in 1..Len(items) : items[i].t # "str"
    THEN Exc("TypeError", <<"sequence item: expected str instance">>)
    ELSE Ret(Str(JoinPieces(sep, items)))

RECURSIVE PyRepr(_)
RECURSIVE ReprItems(_)
RECURSIVE ReprEntries(_, _)
(* repr(v): a str in quotes, a list in brackets, a dict in braces *)
PyRepr(v) ==
    CASE v.t = "str" -> <<"'">> \o v.s \o <<"'">>
      [] v.t = "int" -> <<ToString(v.n)>>
      [] v.t = "none" -> <<"None">>
      [] v.t = "list" -> <<"[">> \o ReprItems(v.items) \o <<"]">>
      [] OTHER -> <<"{">> \o ReprEntries(v.m, KeysOf(v.m)) \o <<"}">>

ReprItems(items) ==
    IF items = << >> THEN << >>
    ELSE IF Len(items) = 1 THEN PyRepr(items[1])
    ELSE PyRepr(items[1]) \o <<",", " ">> \o ReprItems(Tail(items))

ReprEntries(m, keys) ==
    IF keys = << >> THEN << >>
    ELSE LET entry == <<"'", keys[1], "'", ":", " ">> \o PyRepr(m[keys[1]])
         IN  IF Len(keys) = 1 THEN entry
             ELSE entry \o <<",", " ">> \o ReprEntries(m, Tail(keys))

(* str(v): a str is itself, anything else its repr *)
PyStr(v) == IF v.t = "str" THEN v.s ELSE PyRepr(v)

(* All sequences over S of length at most n *)
RECURSIVE SeqsUpTo(_, _)
SeqsUpTo(S, n) ==
    IF n <= 0
    THEN {<< >>}
    ELSE LET shorter == SeqsUpTo(S, n - 1)
         IN  shorter \cup {Append(q, x) : q \in {r \in shorter : Len(r) = n - 1}, x \in S}

-----------------------------------------------------------------------------
(* get_value_by_key_path *)

KeyPathCaughtNarrow == {"KeyError"}

(* the except clause of the loop body *)
KeyPathCaught == {"KeyError", "IndexError", "TypeError"}

RECURSIVE get_value_by_key_path(_, _)
get_value_by_key_path(current, path) ==
    IF path = << >>
    THEN Ret(current)
    ELSE LET r == PyGetItem(current, Head(path))
         IN  IF r.k = "exc"
             THEN IF r.exc \in KeyPathCaught THEN Ret(None) ELSE r
             ELSE get_value_by_key_path(r.v, Tail(path))

(* Nested values and key paths the function is applied to *)
Leaves == {None, Num(0), Str(<<"a", "b">>)}

Flat == Leaves
        \cup {List(<< >>), Dict(EmptyMap)}
        \cup {List(<<x>>) : x \in Leaves}
        \cup {List(<<x, y>>) : x \in {None, Num(0)}, y \in {Num(0), Str(<<"a", "b">>)}}
        \cup {Dict([a |-> x]) : x \in Leaves}
        \cup {Dict([a |-> x, b |-> y]) : x \in {None, Num(0)}, y \in {Num(0), Str(<<"a", "b">>)}}

RECURSIVE Nested(_)
Nested(depth) ==
    IF depth <= 1
    THEN Flat
    ELSE LET inner == Nested(depth - 1)
         IN  inner \cup {List(<<x>>) : x \in inner}
                   \cup {Dict([b |-> x]) : x \in inner}
                   \cup {List(<<None, x>>) : x \in inner}

PathKeys == {Name("a"), Name("b"), Idx(0), Idx(1), Idx(-1), Idx(2)}

RECURSIVE PathsUpTo(_)
PathsUpTo(n) ==
    IF n = 0
    THEN {<< >>}
    ELSE LET shorter == PathsUpTo(n - 1)
         IN  shorter \cup {<<key>> \o p : key \in PathKeys, p \in {q \in shorter : Len(q) = n - 1}}

(* a cell calls get_value_by_key_path(d, path) *)
CallGetValueByKeyPath ==
    /\ nb = "keypath"
    /\ pc = "call"
    /\ kp' = [kp EXCEPT !.out = get_value_by_key_path(kp.d, kp.path)]
    /\ pc' = "returned"
    /\ UNCHANGED <<variables_json, kernel, nb, kb_reply, documents, rerank_reply, reranked_json,
                   kb_context, prompt, llm_reply, answer, guardrail_reply,
                   guardrail_response, error, calls>>

InitKeyPath ==
    /\ nb = "keypath"
    /\ pc = "call"
    /\ kp \in [d : Nested(MaxDepth), path : PathsUpTo(MaxPath), out : {Unset}]
    /\ kb_reply = Unset
    /\ documents = Unset
    /\ rerank_reply = Unset
    /\ reranked_json = Unset
    /\ kb_context = Unset
    /\ prompt = Unset
    /\ llm_reply = Unset
    /\ answer = Unset
    /\ guardrail_reply = Unset
    /\ guardrail_response = Unset
    /\ error = NoError
    /\ calls = << >>
    /\ variables_json = Unset
    /\ kernel = Unset

NextKeyPath == CallGetValueByKeyPath

SpecKeyPath == InitKeyPath /\ [][NextKeyPath]_vars

-----------------------------------------------------------------------------
(* Notebook 2.4: knowledge-base search, reranking, Converse *)

(* r, or what F makes of its value: an exception ends the evaluation *)
Bind(r, F(_)) == IF r.k = "exc" THEN r ELSE F(r.v)

(* the notebook's numberOfResults (5, then 20) and reranked_result_count  *)
(* (5), scaled down                                                        *)
numberOfResults_plain == 2
numberOfResults_rerank == 3
reranked_result_count == 2

NL == "\n"
Query == Str(<<"What is red teaming? How can it be used with text to SQL?">>)

(* The retrieve backend: it raises, or replies with at most the number of *)
(* results the request asks for                                            *)
RetrieveRequest(query, kb_id, numberOfResults) ==
    [api |-> "retrieve", knowledgeBaseId |-> kb_id, retrievalQuery |-> query,
     numberOfResults |-> numberOfResults, filter |-> "none"]

TextResult(s) == Dict([content |-> Dict([text |-> Str(s)]), scoreValue |-> Num(7)])
SpanResult == Dict([content |-> Dict([text |->
                  List(<<Dict([span |-> Str(<<"b">>)]), Str(<<"c">>)>>)])])
NoContentResult == Dict(EmptyMap)
NoTextResult == Dict([content |-> Dict(EmptyMap)])
NullTextResult == Dict([content |-> Dict([text |-> None])])

BackendError == Exc("ClientError", <<"An error occurred when calling the operation">>)

KbReplies(request, shapes) ==
    {BackendError, Ret(Dict(EmptyMap))}
    \cup {Ret(Dict([retrievalResults |-> List(rs)])) :
            rs \in SeqsUpTo(shapes, request.numberOfResults)}

SearchKbShapes == {TextResult(<<"a">>), SpanResult, NoContentResult, NullTextResult}

SpanTextsOfSpanObjectsOnly(items) ==
    [i \in 1..Len(items) |->
        IF items[i].t = "dict"
        THEN (IF "span" \in DOMAIN items[i].m THEN items[i].m["span"] ELSE Str(<< >>))
        ELSE Str(<< >>)]

(* the comprehension of lines 256-257 over the items of content.text *)
SpanTexts(items) ==
    [i \in 1..Len(items) |->
        IF items[i].t = "dict"
        THEN (IF "span" \in DOMAIN items[i].m THEN items[i].m["span"] ELSE Str(<< >>))
        ELSE Str(PyStr(items[i]))]

(* lines 254-257: the text of one result *)
ResultText(result) ==
    Bind(PyContains("content", result), LAMBDA hasContent :
      IF ~hasContent THEN Ret(Str(<< >>))
      ELSE Bind(PyGetItem(result, Name("content")), LAMBDA content :
        Bind(PyContains("text", content), LAMBDA hasText :
          IF ~hasText THEN Ret(Str(<< >>))
          ELSE Bind(PyGetItem(content, Name("text")), LAMBDA text :
            Bind(PyIter(text), LAMBDA items :
              PyJoin(<< >>, SpanTexts(items)))))))

(* the loop of lines 252-266 from its i-th iteration (0-based) on *)
RECURSIVE SearchKbLoop(_, _, _, _)
SearchKbLoop(results, i, documents_, original_results) ==
    IF i >= Len(results)
    THEN Ret([documents |-> documents_, original_results |-> original_results])
    ELSE Bind(ResultText(results[i + 1]), LAMBDA text :
           Bind(PyGet(results[i + 1], "scoreValue", Num(0)), LAMBDA score :
             SearchKbLoop(results, i + 1,
                Append(documents_, text),
                Append(original_results,
                       Dict([position |-> Num(i + 1), score |-> score, text |-> text])))))

(* the locals of search_kb when it reaches its return statement *)
SearchKbLocals(reply) ==
    Bind(reply, LAMBDA kb_response :
      Bind(PyGet(kb_response, "retrievalResults", List(<< >>)), LAMBDA results :
        Bind(PyIter(results), LAMBDA items :
          SearchKbLoop(items, 0, << >>, << >>))))

(* search_kb: no try/except, an exception of the call or of the loop      *)
(* leaves the function as it is; the function returns documents            *)
search_kb(reply) ==
    Bind(SearchKbLocals(reply), LAMBDA locals : Ret(List(locals.documents)))

(* The rerank backend *)
(* lines 354-367: the request of rerank_results *)
RerankRequest(query, kb_results, rerank_model_arn, count) ==
    [api |-> "rerank", query |-> query, modelArn |-> rerank_model_arn,
     numberOfResults |-> count, sources |-> kb_results.items]

(* index values of a rerank result: absent, negative, within and beyond   *)
(* the source list                                                         *)
RerankShapes ==
    {Dict([relevanceScore |-> Num(9)])}
    \cup {Dict([index |-> Num(i), relevanceScore |-> Num(9)]) :
            i \in (-1)..numberOfResults_rerank}

RerankReplies(request) ==
    {BackendError, Ret(Dict(EmptyMap))}
    \cup {Ret(Dict([results |-> List(rs)])) :
            rs \in SeqsUpTo(RerankShapes, request.numberOfResults)}

PyAddOne(v) ==
    IF v.t = "int" THEN Ret(Num(v.n + 1))
    ELSE Exc("TypeError", <<"unsupported operand type(s) for +">>)

NewPositionFromIndex(reranked_results, idx) == idx.n + 1

(* line 375: "new_position": len(reranked_results) + 1 *)
NewPosition(reranked_results, idx) == Len(reranked_results) + 1

(* the loop of lines 371-378 *)
RECURSIVE RerankLoop(_, _, _)
RerankLoop(kb_results, results, reranked_results) ==
    IF results = << >>
    THEN Ret(reranked_results)
    ELSE Bind(PyGet(Head(results), "index", Num(0)), LAMBDA idx :
           Bind(PyAddOne(idx), LAMBDA original_position :
             Bind(PyGet(Head(results), "relevanceScore", Num(0)), LAMBDA score :
               Bind(PyGetItem(kb_results, Idx(idx.n)), LAMBDA text :
                 RerankLoop(kb_results, Tail(results),
                    Append(reranked_results,
                       Dict([original_position |-> original_position,
                             new_position |-> Num(NewPosition(reranked_results, idx)),
                             relevance_score |-> score,
                             text |-> text])))))))

rerank_results_catching(kb_results, reply) ==
    LET r == Bind(reply, LAMBDA reranked :
               Bind(PyGet(reranked, "results", List(<< >>)), LAMBDA results :
                 Bind(PyIter(results), LAMBDA items :
                   Bind(RerankLoop(kb_results, items, << >>), LAMBDA reranked_results :
                     Ret(Dict([original_results |-> kb_results,
                               reranked_results |-> List(reranked_results)]))))))
    IN  IF r.k = "exc"
        THEN Ret(Dict([original_results |-> kb_results, reranked_results |-> List(<< >>)]))
        ELSE r

rerank_results_skipping_empty(kb_results, reply) ==
    IF kb_results.items = << >>
    THEN Ret(Dict([original_results |-> kb_results, reranked_results |-> List(<< >>)]))
    ELSE Bind(reply, LAMBDA reranked :
           Bind(PyGet(reranked, "results", List(<< >>)), LAMBDA results :
             Bind(PyIter(results), LAMBDA items :
               Bind(RerankLoop(kb_results, items, << >>), LAMBDA reranked_results :
                 Ret(Dict([original_results |-> kb_results,
                           reranked_results |-> List(reranked_results)]))))))

(* rerank_results: no try/except *)
rerank_results(kb_results, reply) ==
    Bind(reply, LAMBDA reranked :
      Bind(PyGet(reranked, "results", List(<< >>)), LAMBDA results :
        Bind(PyIter(results), LAMBDA items :
          Bind(RerankLoop(kb_results, items, << >>), LAMBDA reranked_results :
            Ret(Dict([original_results |-> kb_results,
                      reranked_results |-> List(reranked_results)]))))))

RECURSIVE ContextLoopPrepending(_, _)
ContextLoopPrepending(results, kb_context_) ==
    IF results = << >>
    THEN Ret(Str(kb_context_))
    ELSE Bind(PyGetItem(Head(results), Name("text")), LAMBDA text :
           IF text.t # "str"
           THEN Exc("TypeError", <<"unsupported operand type(s) for +">>)
           ELSE ContextLoopPrepending(Tail(results), text.s \o <<NL, NL>> \o kb_context_))

(* lines 425-427: kb_context += result['text'] + "\n\n" *)
RECURSIVE ContextLoop(_, _)
ContextLoop(results, kb_context_) ==
    IF results = << >>
    THEN Ret(Str(kb_context_))
    ELSE Bind(PyGetItem(Head(results), Name("text")), LAMBDA text :
           IF text.t # "str"
           THEN Exc("TypeError", <<"unsupported operand type(s) for +">>)
           ELSE ContextLoop(Tail(results), kb_context_ \o text.s \o <<NL, NL>>))

RerankedContext(reranked_json_) ==
    Bind(PyGetItem(reranked_json_, Name("reranked_results")), LAMBDA results :
      Bind(PyIter(results), LAMBDA items : ContextLoop(items, << >>)))

(* lines 314-320 and 441-447: the system prompt, an f-string around       *)
(* {kb_context}                                                            *)
SystemPromptHead == "\nPlease use the context below to respond to the question. [...]\nCONTEXT:\n"
SystemPrompt(kb_context_) == Str(<<SystemPromptHead>> \o PyStr(kb_context_) \o <<NL>>)

(* invoke_converse *)
HTTPStatusOK == 200
ConverseMaxTokens == 4096
DefaultMaxTokens == 4000
DefaultTemperature == "0.1"
model_id == "us.amazon.nova-pro-v1:0"

(* lines 170-195: the request *)
ConverseRequest(system_prompt, user_prompt, model, temperature, max_tokens) ==
    [api |-> "converse", modelId |-> model,
     messages |-> <<[role |-> "user", content |-> <<[text |-> Str(PyStr(user_prompt))]>>]>>,
     system |-> <<[text |-> system_prompt]>>,
     inferenceConfig |-> [maxTokens |-> ConverseMaxTokens, temperature |-> temperature]]

RECURSIVE ConverseLoopPrepending(_, _)
ConverseLoopPrepending(content_list, answer_) ==
    IF content_list = << >>
    THEN Ret(Str(answer_))
    ELSE Bind(PyGet(Head(content_list), "text", None), LAMBDA text :
           IF ~PyTruthy(text)
           THEN ConverseLoopPrepending(Tail(content_list), answer_)
           ELSE IF text.t # "str"
                THEN Exc("TypeError", <<"can only concatenate str to str">>)
                ELSE ConverseLoopPrepending(Tail(content_list), text.s \o answer_))

(* lines 203-206: the loop over content_list *)
RECURSIVE ConverseLoop(_, _)
ConverseLoop(content_list, answer_) ==
    IF content_list = << >>
    THEN Ret(Str(answer_))
    ELSE Bind(PyGet(Head(content_list), "text", None), LAMBDA text :
           IF ~PyTruthy(text)
           THEN ConverseLoop(Tail(content_list), answer_)
           ELSE IF text.t # "str"
                THEN Exc("TypeError", <<"can only concatenate str to str">>)
                ELSE ConverseLoop(Tail(content_list), answer_ \o text.s))

ConverseProcessStatusOnly(response) ==
    Bind(PyGetItem(response, Name("ResponseMetadata")), LAMBDA metadata :
      Bind(PyGetItem(metadata, Name("HTTPStatusCode")), LAMBDA status :
        IF status = Num(HTTPStatusOK)
        THEN Bind(get_value_by_key_path(response,
                     <<Name("output"), Name("message"), Name("content")>>),
               LAMBDA content_list :
                 Bind(PyIter(content_list), LAMBDA items :
                   Bind(ConverseLoop(items, << >>), LAMBDA answer_ :
                     Ret(<<answer_, response>>))))
        ELSE Ret(<<Str(<<"Error: ">> \o PyStr(status)), response>>)))

(* lines 198-210: what the try block does with the response *)
ConverseProcess(response) ==
    Bind(PyGetItem(response, Name("ResponseMetadata")), LAMBDA metadata :
      Bind(PyGetItem(metadata, Name("HTTPStatusCode")), LAMBDA status :
        IF status = Num(HTTPStatusOK)
        THEN Bind(get_value_by_key_path(response,
                     <<Name("output"), Name("message"), Name("content")>>),
               LAMBDA content_list :
                 Bind(PyIter(content_list), LAMBDA items :
                   Bind(ConverseLoop(items, << >>), LAMBDA answer_ :
                     Ret(<<answer_, response>>))))
        ELSE Bind(PyGetItem(response, Name("Error")), LAMBDA err :
               Bind(PyGetItem(err, Name("Message")), LAMBDA message :
                 Ret(<<Str(<<"Error: ">> \o PyStr(status) \o <<" - ">> \o PyStr(message)),
                       response>>)))))

invoke_converse_uncaught(reply) == Bind(reply, LAMBDA response : ConverseProcess(response))

(* invoke_converse: except Exception returns (None, None) *)
invoke_converse(reply) ==
    LET r == Bind(reply, LAMBDA response : ConverseProcess(response))
    IN  IF r.k = "exc" THEN Ret(<<None, None>>) ELSE r

(* The Converse backend *)
MaxFragments == 2

Fragments == {Dict([text |-> Str(<<"x">>)]), Dict([text |-> Str(<<"y">>)]),
              Dict([text |-> None]), Dict(EmptyMap)}

ConverseOK(content) ==
    Dict([ResponseMetadata |-> Dict([HTTPStatusCode |-> Num(HTTPStatusOK)]),
          output |-> Dict([message |-> Dict([content |-> List(content)])])])

ConverseReplies ==
    {BackendError,
     Ret(Dict([ResponseMetadata |-> Dict([HTTPStatusCode |-> Num(HTTPStatusOK)])])),
     Ret(Dict([ResponseMetadata |-> Dict([HTTPStatusCode |-> Num(500)]),
               Error |-> Dict([Message |-> Str(<<"throttled">>)])])),
     Ret(Dict([ResponseMetadata |-> Dict([HTTPStatusCode |-> Num(500)])])),
     Ret(Dict([ResponseMetadata |-> Dict([HTTPStatusCode |-> Num(500)]),
               Error |-> Dict(EmptyMap)]))}
    \cup {Ret(ConverseOK(content)) : content \in SeqsUpTo(Fragments, MaxFragments)}

(* Cells of notebook 2.4.  A cell that raises halts the run. *)
Halt(exception) ==
    /\ pc' = "halted"
    /\ error' = exception

(* lines 286-290: search, then kb_context = '\n\n'.join(original_kb_results) *)
PlainSearchCell ==
    /\ nb = "converse_plain"
    /\ pc = "search"
    /\ LET request == RetrieveRequest(Query, "kb", numberOfResults_plain)
       IN  \E reply \in KbReplies(request, SearchKbShapes) :
             LET found == search_kb(reply)
                 joined == Bind(found, LAMBDA docs : PyJoin(<<NL, NL>>, docs.items))
             IN  /\ calls' = Append(calls, request)
                 /\ kb_reply' = reply
                 /\ IF joined.k = "exc"
                    THEN /\ Halt(joined)
                         /\ UNCHANGED <<documents, kb_context>>
                    ELSE /\ documents' = found.v
                         /\ kb_context' = joined.v
                         /\ pc' = "converse"
                         /\ UNCHANGED error
    /\ UNCHANGED <<variables_json, kernel, nb, kp, rerank_reply, reranked_json, prompt, llm_reply, answer,
                   guardrail_reply, guardrail_response>>

(* lines 398-399: original_kb_results = search_kb(query, knowledge_base_id, 20) *)
SearchCell ==
    /\ nb = "converse_rerank"
    /\ pc = "search"
    /\ LET request == RetrieveRequest(Query, "kb", numberOfResults_rerank)
       IN  \E reply \in KbReplies(request, SearchKbShapes) :
             LET found == search_kb(reply)
             IN  /\ calls' = Append(calls, request)
                 /\ kb_reply' = reply
                 /\ IF found.k = "exc"
                    THEN /\ Halt(found)
                         /\ UNCHANGED documents
                    ELSE /\ documents' = found.v
                         /\ pc' = "rerank"
                         /\ UNCHANGED error
    /\ UNCHANGED <<variables_json, kernel, nb, kp, rerank_reply, reranked_json, kb_context, prompt, llm_reply,
                   answer, guardrail_reply, guardrail_response>>

(* lines 412-413: reranked_json = rerank_results(query, original_kb_results, ...) *)
RerankCell ==
    /\ nb = "converse_rerank"
    /\ pc = "rerank"
    /\ LET request == RerankRequest(Query, documents, "rerank_model_arn",
                                    reranked_result_count)
       IN  \E reply \in RerankReplies(request) :
             LET reranked == rerank_results(documents, reply)
             IN  /\ calls' = Append(calls, request)
                 /\ rerank_reply' = reply
                 /\ IF reranked.k = "exc"
                    THEN /\ Halt(reranked)
                         /\ UNCHANGED reranked_json
                    ELSE /\ reranked_json' = reranked.v
                         /\ pc' = "context"
                         /\ UNCHANGED error
    /\ UNCHANGED <<variables_json, kernel, nb, kp, kb_reply, documents, kb_context, prompt, llm_reply, answer,
                   guardrail_reply, guardrail_response>>

(* lines 424-427: the reranked texts concatenated into kb_context *)
ContextCell ==
    /\ nb = "converse_rerank"
    /\ pc = "context"
    /\ LET built == RerankedContext(reranked_json)
       IN  IF built.k = "exc"
           THEN /\ Halt(built)
                /\ UNCHANGED kb_context
           ELSE /\ kb_context' = built.v
                /\ pc' = "converse"
                /\ UNCHANGED error
    /\ UNCHANGED <<variables_json, kernel, nb, kp, kb_reply, documents, rerank_reply, reranked_json, prompt,
                   llm_reply, answer, guardrail_reply, guardrail_response, calls>>

(* lines 311-327 and 438-454: the system prompt, then invoke_converse *)
ConverseCell ==
    /\ nb \in {"converse_plain", "converse_rerank"}
    /\ pc = "converse"
    /\ LET system_prompt == SystemPrompt(kb_context)
           request == ConverseRequest(system_prompt, Query, model_id,
                                      DefaultTemperature, DefaultMaxTokens)
       IN  \E reply \in ConverseReplies :
             /\ calls' = Append(calls, request)
             /\ prompt' = system_prompt
             /\ llm_reply' = reply
             /\ answer' = invoke_converse(reply).v
             /\ pc' = "done"
    /\ UNCHANGED <<variables_json, kernel, nb, kp, kb_reply, documents, rerank_reply, reranked_json, kb_context,
                   guardrail_reply, guardrail_response, error>>

InitRun(notebooks) ==
    /\ nb \in notebooks
    /\ pc = "search"
    /\ kp = Unset
    /\ kb_reply = Unset
    /\ documents = Unset
    /\ rerank_reply = Unset
    /\ reranked_json = Unset
    /\ kb_context = Unset
    /\ prompt = Unset
    /\ llm_reply = Unset
    /\ answer = Unset
    /\ guardrail_reply = Unset
    /\ guardrail_response = Unset
    /\ error = NoError
    /\ calls = << >>
    /\ variables_json = Unset
    /\ kernel = Unset

InitConverse == InitRun({"converse_plain", "converse_rerank"})

NextConverse ==
    \/ PlainSearchCell
    \/ SearchCell
    \/ RerankCell
    \/ ContextCell
    \/ ConverseCell

SpecConverse == InitConverse /\ [][NextConverse]_vars

(* invoke_converse called on its own, with every argument the caller's *)
Temperatures == {"0.0", "0.1", "1.0"}
MaxTokenLimits == {1, DefaultMaxTokens, ConverseMaxTokens}
UserPrompts == {Query, Str(<<"hello">>)}

CallInvokeConverse ==
    /\ nb = "invoke_converse"
    /\ pc = "call"
    /\ \E reply \in ConverseReplies :
         /\ calls' = Append(calls, ConverseRequest(kp.system_prompt, kp.user_prompt,
                                   kp.model_id, kp.temperature, kp.max_tokens))
         /\ llm_reply' = reply
         /\ kp' = [kp EXCEPT !.out = invoke_converse(reply)]
         /\ IF invoke_converse(reply).k = "exc"
            THEN Halt(invoke_converse(reply))
            ELSE pc' = "returned" /\ UNCHANGED error
    /\ UNCHANGED <<variables_json, kernel, nb, kb_reply, documents, rerank_reply, reranked_json,
                   kb_context, prompt, answer, guardrail_reply, guardrail_response>>

InitInvokeConverse ==
    /\ nb = "invoke_converse"
    /\ pc = "call"
    /\ kp \in [system_prompt : {SystemPrompt(Str(<<"a">>))}, user_prompt : UserPrompts,
               model_id : {model_id}, temperature : Temperatures,
               max_tokens : MaxTokenLimits, out : {Unset}]
    /\ kb_reply = Unset
    /\ documents = Unset
    /\ rerank_reply = Unset
    /\ reranked_json = Unset
    /\ kb_context = Unset
    /\ prompt = Unset
    /\ llm_reply = Unset
    /\ answer = Unset
    /\ guardrail_reply = Unset
    /\ guardrail_response = Unset
    /\ error = NoError
    /\ calls = << >>
    /\ variables_json = Unset
    /\ kernel = Unset

NextInvokeConverse == CallInvokeConverse

SpecInvokeConverse == InitInvokeConverse /\ [][NextInvokeConverse]_vars

(* search_kb called on its own, over every shape of content.text *)
MaxSearchResults == 2

SearchKbTextShapes ==
    {TextResult(<<"a">>), TextResult(<<"b", "c">>), SpanResult,
     Dict([content |-> Dict([text |->
        List(<<Str(<<"x">>), Dict(EmptyMap), Dict([span |-> Str(<<"y">>)])>>)])]),
     Dict([content |-> Dict([text |-> List(<<Dict([span |-> None])>>)])]),
     NoContentResult, NoTextResult, NullTextResult}

CallSearchKb ==
    /\ nb = "search_kb"
    /\ pc = "call"
    /\ LET request == RetrieveRequest(kp.query, kp.kb_id, kp.numberOfResults)
       IN  \E reply \in KbReplies(request, SearchKbTextShapes) :
             /\ calls' = Append(calls, request)
             /\ kb_reply' = reply
             /\ kp' = [kp EXCEPT !.out = search_kb(reply)]
             /\ IF search_kb(reply).k = "exc"
                THEN Halt(search_kb(reply))
                ELSE pc' = "returned" /\ UNCHANGED error
    /\ UNCHANGED <<variables_json, kernel, nb, documents, rerank_reply, reranked_json,
                   kb_context, prompt, llm_reply, answer, guardrail_reply,
                   guardrail_response>>

InitSearchKb ==
    /\ nb = "search_kb"
    /\ pc = "call"
    /\ kp \in [query : UserPrompts, kb_id : {"kb"},
               numberOfResults : 1..MaxSearchResults, out : {Unset}]
    /\ kb_reply = Unset
    /\ documents = Unset
    /\ rerank_reply = Unset
    /\ reranked_json = Unset
    /\ kb_context = Unset
    /\ prompt = Unset
    /\ llm_reply = Unset
    /\ answer = Unset
    /\ guardrail_reply = Unset
    /\ guardrail_response = Unset
    /\ error = NoError
    /\ calls = << >>
    /\ variables_json = Unset
    /\ kernel = Unset

SpecSearchKb == InitSearchKb /\ [][CallSearchKb]_vars

-----------------------------------------------------------------------------
(* Lab 1.7 (SageMaker endpoint, LangChain and boto3 paths) and the        *)
(* guardrail notebook                                                      *)

number_of_results == 3

(* what "except Exception" catches: every exception type of the model *)
ExceptionTypes == {"ClientError", "KeyError", "IndexError", "TypeError",
                   "AttributeError", "RuntimeError", "JSONDecodeError"}

BedrockShapes == {TextResult(<<"a">>), TextResult(<<"b", "c">>), NoContentResult,
                  NullTextResult}

(* [result['content']['text'] for result in response['retrievalResults']] *)
RECURSIVE ContentTexts(_)
ContentTexts(results) ==
    IF results = << >>
    THEN Ret(<< >>)
    ELSE Bind(PyGetItem(Head(results), Name("content")), LAMBDA content :
           Bind(PyGetItem(content, Name("text")), LAMBDA text :
             Bind(ContentTexts(Tail(results)), LAMBDA rest : Ret(<<text>> \o rest))))

RetrievalFailureWithoutCause(e) == Exc("RuntimeError", <<"Bedrock retrieval failed: ">>)

(* lines 532-534 of Lab 1.7, 648-650 of the guardrail notebook *)
RetrievalFailure(e) == Exc("RuntimeError", <<"Bedrock retrieval failed: ">> \o e.msg)

(* retrieve_from_bedrock, both variants: the try block, and the handler   *)
(* that wraps whatever it raised                                           *)
retrieve_from_bedrock(reply) ==
    LET r == Bind(reply, LAMBDA response :
               Bind(PyGetItem(response, Name("retrievalResults")), LAMBDA results :
                 Bind(PyIter(results), LAMBDA items :
                   Bind(ContentTexts(items), LAMBDA texts : Ret(List(texts))))))
    IN  IF r.k = "exc" /\ r.exc \in ExceptionTypes THEN RetrievalFailure(r) ELSE r

(* str.strip(): leading and trailing whitespace removed *)
Indent == "        "
Whitespace == {NL, " ", Indent, "    "}

RECURSIVE LStrip(_)
LStrip(s) == IF s # << >> /\ Head(s) \in Whitespace THEN LStrip(Tail(s)) ELSE s

RECURSIVE RStrip(_)
RStrip(s) ==
    IF s # << >> /\ s[Len(s)] \in Whitespace THEN RStrip(SubSeq(s, 1, Len(s) - 1)) ELSE s

PyStrip(s) == RStrip(LStrip(s))

SageMakerQuery == Str(<<"In CONSOLIDATED STATEMENTS OF CASH FLOWS, How much did net income change in years 2022, 2023, 2024?">>)
GuardrailQuery == Str(<<"based on your amazon's results should I buy amazon stock?">>)

(* Lab 1.7, lines 558-567: format_prompt, an f-string with {context} and  *)
(* {query}, stripped                                                       *)
Llama3Head == "<|begin_of_text|>\n        <|start_header_id|>system<|end_header_id|>\n        You are an assistant for question-answering tasks. [...]\n        <|start_header_id|>user<|end_header_id|>\n        Context: "
Llama3Question == "Question: "
Llama3Tail == "<|start_header_id|>assistant<|end_header_id|> \n        Answer:"

format_prompt_sagemaker(query, context) ==
    Ret(Str(PyStrip(<<NL, Indent, Llama3Head>> \o PyStr(context)
                    \o <<" ", NL, Indent, Llama3Question>> \o PyStr(query)
                    \o <<NL, Indent, Llama3Tail, NL, Indent>>)))

(* guardrail notebook, lines 656-669: format_prompt, " ".join(context)    *)
(* inside a system prompt inside the Llama 3 template, stripped           *)
GuardrailSystemHead == "Use the following context to answer the question. If you don't know the answer, say 'I don't know'.\n        Context:\n        "
GuardrailHead == "<|begin_of_text|>\n        <|start_header_id|>system<|end_header_id|>\n        "
GuardrailUser == "<|start_header_id|>user<|end_header_id|>\n        Question: "
GuardrailTail == "<|start_header_id|>assistant<|end_header_id|>"

format_prompt_guardrail(query, context) ==
    Bind(PyIter(context), LAMBDA items :
      Bind(PyJoin(<<" ">>, items), LAMBDA joined :
        LET system_prompt == <<GuardrailSystemHead>> \o joined.s \o <<"\"", NL, "    ">>
        IN  Ret(Str(PyStrip(<<NL, Indent, GuardrailHead>> \o system_prompt
                            \o <<NL, Indent, GuardrailUser>> \o PyStr(query)
                            \o <<NL, Indent, GuardrailTail, NL, Indent>>)))))

(* The SageMaker endpoint: it raises, or replies with a body, which is    *)
(* the JSON document it holds or bytes that are no JSON                   *)
NotJson == [t |-> "not json"]

(* json.loads(response['Body'].read().decode("utf-8")) *)
JsonLoads(body) ==
    IF body = NotJson
    THEN Exc("JSONDecodeError", <<"Expecting value: line 1 column 1 (char 0)">>)
    ELSE Ret(body)

GeneratedTexts == {Str(<<"x">>), Str(<<"buy", " ", "the", " ", "stock">>)}

EndpointBodies ==
    {NotJson, List(<< >>), List(<<Dict(EmptyMap)>>), List(<<Str(<<"x">>)>>),
     Dict(EmptyMap), Dict([error |-> Str(<<"x">>)]),
     Str(<<"h", "i">>), Str(<<"no ", "generated_text", " here">>), Num(5), None,
     Dict([generated_text |-> None])}
    \cup {List(<<Dict([generated_text |-> x])>>) : x \in GeneratedTexts}
    \cup {List(<<Dict([generation |-> x])>>) : x \in GeneratedTexts}
    \cup {List(<<Dict([generated_text |-> x]), Dict(EmptyMap)>>) : x \in GeneratedTexts}
    \cup {Dict([generated_text |-> x]) : x \in GeneratedTexts}
    \cup {Dict([generation |-> x]) : x \in GeneratedTexts}
    \cup {Dict([generated_text |-> Str(<<"x">>), generation |-> Str(<<"y">>)])}

EndpointReplies == {BackendError} \cup {Ret(body) : body \in EndpointBodies}

(* lines 594-604 of Lab 1.7: the request, json.dumps of the payload *)
generation_configuration ==
    [temperature |-> 0, top_k |-> 10, max_new_tokens |-> 512, stop |-> "<|eot_id|>"]

EndpointRequest(prompt_, endpoint_name) ==
    [api |-> "invoke_endpoint", EndpointName |-> endpoint_name,
     ContentType |-> "application/json",
     Body |-> [inputs |-> prompt_, parameters |-> generation_configuration]]

ExtractGeneratedTextListAsMapping(result) ==
    Bind(PyContains("generated_text", result), LAMBDA hasText :
      IF hasText THEN PyGetItem(result, Name("generated_text"))
      ELSE Bind(PyContains("generation", result), LAMBDA hasGeneration :
             IF hasGeneration THEN PyGetItem(result, Name("generation"))
             ELSE Exc("RuntimeError", <<"Unexpected response format">>)))

ExtractGeneratedTextGenerationFirst(result) ==
    IF result.t = "list"
    THEN Bind(PyGetItem(result, Idx(0)), LAMBDA first :
           PyGetItem(first, Name("generated_text")))
    ELSE Bind(PyContains("generation", result), LAMBDA hasGeneration :
           IF hasGeneration THEN PyGetItem(result, Name("generation"))
           ELSE Bind(PyContains("generated_text", result), LAMBDA hasText :
                  IF hasText THEN PyGetItem(result, Name("generated_text"))
                  ELSE Exc("RuntimeError", <<"Unexpected response format">>)))

(* lines 609-621 of Lab 1.7, 693-705 of the guardrail notebook *)
ExtractGeneratedText(result) ==
    IF result.t = "list"
    THEN Bind(PyGetItem(result, Idx(0)), LAMBDA first :
           PyGetItem(first, Name("generated_text")))
    ELSE Bind(PyContains("generated_text", result), LAMBDA hasText :
           IF hasText THEN PyGetItem(result, Name("generated_text"))
           ELSE Bind(PyContains("generation", result), LAMBDA hasGeneration :
                  IF hasGeneration THEN PyGetItem(result, Name("generation"))
                  ELSE Exc("RuntimeError", <<"Unexpected response format">>)))

GenerationFailureWithoutCause(e) == Exc("RuntimeError", <<"Generation failed: ">>)

(* lines 623-625: raise RuntimeError(f"Generation failed: {str(e)}") *)
GenerationFailure(e) == Exc("RuntimeError", <<"Generation failed: ">> \o e.msg)

generate_response_unwrapped(reply) ==
    Bind(reply, LAMBDA body :
      Bind(JsonLoads(body), LAMBDA result : ExtractGeneratedText(result)))

generate_response_returning_none(reply) ==
    LET r == Bind(reply, LAMBDA body :
               Bind(JsonLoads(body), LAMBDA result : ExtractGeneratedText(result)))
    IN  IF r.k = "exc" THEN Ret(None) ELSE r

(* generate_response, both notebooks *)
generate_response(reply) ==
    LET r == Bind(reply, LAMBDA body :
               Bind(JsonLoads(body), LAMBDA result : ExtractGeneratedText(result)))
    IN  IF r.k = "exc" /\ r.exc \in ExceptionTypes THEN GenerationFailure(r) ELSE r

(* The guardrail service *)
BlockedOutputsMessaging == Str(<<"Response modified per compliance guidelines.">>)

GuardrailRequestOfNothing(output_text) ==
    [api |-> "apply_guardrail", guardrailIdentifier |-> "guardrail_id",
     guardrailVersion |-> "guardrail_version", source |-> "OUTPUT",
     content |-> <<[text |-> [text |-> Str(<< >>)]]>>]

(* lines 715-726: the request of apply_output_guardrail *)
GuardrailRequest(output_text) ==
    [api |-> "apply_guardrail", guardrailIdentifier |-> "guardrail_id",
     guardrailVersion |-> "guardrail_version", source |-> "OUTPUT",
     content |-> <<[text |-> [text |-> output_text]]>>]

GuardrailOutputs(outputs) == Dict([action |-> Str(<<"GUARDRAIL_INTERVENED">>),
                                   outputs |-> outputs])

GuardrailBodies(output_text) ==
    {None, List(<< >>), Dict(EmptyMap),
     Dict([action |-> Str(<<"NONE">>), outputs |-> List(<< >>)]),
     GuardrailOutputs(List(<<Dict([text |-> BlockedOutputsMessaging])>>)),
     GuardrailOutputs(List(<<Dict([text |-> Str(<<"{NAME}">>)])>>)),
     GuardrailOutputs(List(<<Dict([text |-> output_text])>>)),
     GuardrailOutputs(List(<<Dict([text |-> Str(<<"{NAME}">>)]),
                             Dict([text |-> Str(<<"x">>)])>>)),
     GuardrailOutputs(List(<<Dict(EmptyMap)>>)),
     GuardrailOutputs(List(<<Str(<<"x">>)>>)),
     GuardrailOutputs(None),
     GuardrailOutputs(Str(<<"x">>)),
     GuardrailOutputs(Dict([text |-> Str(<<"x">>)])),
     GuardrailOutputs(List(<<Dict([text |-> None])>>)),
     GuardrailOutputs(List(<<Dict([text |-> Str(<<"{NAME}">>)]), Dict(EmptyMap)>>))}

GuardrailReplies(output_text) ==
    {BackendError} \cup {Ret(body) : body \in GuardrailBodies(output_text)}

GuardrailCaughtClientErrorOnly == {"ClientError"}

(* create_guardrail: the message for a blocked input; the service answers *)
(* a blocked text with the message configured for the request's source    *)
BlockedInputMessaging == Str(<<"This request cannot be processed due to safety protocols.">>)

BlockedMessageFor(source) ==
    IF source = "INPUT" THEN BlockedInputMessaging ELSE BlockedOutputsMessaging

BlockedReply(request) ==
    Ret(GuardrailOutputs(List(<<Dict([text |-> BlockedMessageFor(request.source)])>>)))

(* line 734: except Exception *)
GuardrailCaught == ExceptionTypes

GuardrailTextOfLastOutput(response, output_text) ==
    Bind(PyContains("outputs", response), LAMBDA hasOutputs :
      IF ~hasOutputs THEN Ret(output_text)
      ELSE Bind(PyGetItem(response, Name("outputs")), LAMBDA outputs :
             IF ~PyTruthy(outputs) THEN Ret(output_text)
             ELSE Bind(PyGetItem(outputs, Idx(-1)), LAMBDA last :
                    PyGetItem(last, Name("text")))))

(* lines 728-732: the outputs of the response *)
GuardrailText(response, output_text) ==
    Bind(PyContains("outputs", response), LAMBDA hasOutputs :
      IF ~hasOutputs THEN Ret(output_text)
      ELSE Bind(PyGetItem(response, Name("outputs")), LAMBDA outputs :
             IF ~PyTruthy(outputs) THEN Ret(output_text)
             ELSE Bind(PyGetItem(outputs, Idx(0)), LAMBDA first :
                    PyGetItem(first, Name("text")))))

apply_output_guardrail_unapplied(output_text, reply) == Ret(output_text)

(* apply_output_guardrail *)
apply_output_guardrail(output_text, reply) ==
    LET r == Bind(reply, LAMBDA response : GuardrailText(response, output_text))
    IN  IF r.k = "exc" /\ r.exc \in GuardrailCaught THEN Ret(output_text) ELSE r

(* guardrail notebook, lines 632-644: the request carries the metadata  *)
(* filter                                                                  *)
FilteredRetrieveRequest(query, kb_id, numberOfResults) ==
    [api |-> "retrieve", knowledgeBaseId |-> kb_id, retrievalQuery |-> query,
     numberOfResults |-> numberOfResults, filter |-> "one_group_filter"]

QueryOf(notebook) == IF notebook = "guardrail" THEN GuardrailQuery ELSE SageMakerQuery

(* context = retrieve_from_bedrock(query, ...) *)
RetrieveStep ==
    /\ nb \in {"sagemaker_boto3", "guardrail"}
    /\ pc = "search"
    /\ LET request == IF nb = "guardrail"
                      THEN FilteredRetrieveRequest(QueryOf(nb), "kb", number_of_results)
                      ELSE RetrieveRequest(QueryOf(nb), "kb", number_of_results)
       IN  \E reply \in KbReplies(request, BedrockShapes) :
             LET found == retrieve_from_bedrock(reply)
             IN  /\ calls' = Append(calls, request)
                 /\ kb_reply' = reply
                 /\ IF found.k = "exc"
                    THEN /\ Halt(found)
                         /\ UNCHANGED documents
                    ELSE /\ documents' = found.v
                         /\ pc' = "format"
                         /\ UNCHANGED error
    /\ UNCHANGED <<variables_json, kernel, nb, kp, rerank_reply, reranked_json, kb_context, prompt, llm_reply,
                   answer, guardrail_reply, guardrail_response>>

(* prompt = format_prompt(query, context) *)
FormatPromptStep ==
    /\ nb \in {"sagemaker_boto3", "guardrail"}
    /\ pc = "format"
    /\ LET built == IF nb = "guardrail"
                    THEN format_prompt_guardrail(QueryOf(nb), documents)
                    ELSE format_prompt_sagemaker(QueryOf(nb), documents)
       IN  IF built.k = "exc"
           THEN /\ Halt(built)
                /\ UNCHANGED prompt
           ELSE /\ prompt' = built.v
                /\ pc' = "generate"
                /\ UNCHANGED error
    /\ UNCHANGED <<variables_json, kernel, nb, kp, kb_reply, documents, rerank_reply, reranked_json, kb_context,
                   llm_reply, answer, guardrail_reply, guardrail_response, calls>>

(* runtime = boto3.client('sagemaker-runtime'), before generate_response's *)
(* try block and without region_name.  Lab 1.7 has created the same       *)
(* client in an earlier cell (line 407), so there it succeeds; the        *)
(* guardrail notebook creates its other clients with an explicit region,  *)
(* and this one raises when the environment configures none.              *)
NoRegionError == Exc("NoRegionError", <<"You must specify a region.">>)

RuntimeClients(notebook) ==
    IF notebook = "guardrail" THEN {Ret("runtime"), NoRegionError} ELSE {Ret("runtime")}

(* response = generate_response(prompt, ENDPOINT_NAME) *)
GenerateStep ==
    /\ nb \in {"sagemaker_boto3", "guardrail"}
    /\ pc = "generate"
    /\ LET request == EndpointRequest(prompt, "sagemakerLLMEndpoint")
       IN  \E runtime \in RuntimeClients(nb) :
             IF runtime.k = "exc"
             THEN /\ Halt(runtime)
                  /\ UNCHANGED <<calls, llm_reply, answer>>
             ELSE \E reply \in EndpointReplies :
                    LET generated == generate_response(reply)
                    IN  /\ calls' = Append(calls, request)
                        /\ llm_reply' = reply
                        /\ IF generated.k = "exc"
                           THEN /\ Halt(generated)
                                /\ UNCHANGED answer
                           ELSE /\ answer' = generated.v
                                /\ pc' = IF nb = "guardrail" THEN "guardrail" ELSE "done"
                                /\ UNCHANGED error
    /\ UNCHANGED <<variables_json, kernel, nb, kp, kb_reply, documents, rerank_reply, reranked_json, kb_context,
                   prompt, guardrail_reply, guardrail_response>>

GuardrailStepRetrying ==
    /\ nb = "guardrail"
    /\ pc = "guardrail"
    /\ LET request == GuardrailRequest(answer)
       IN  \E reply \in GuardrailReplies(answer) :
             LET guarded == apply_output_guardrail(answer, reply)
             IN  /\ calls' = IF reply.k = "exc" THEN calls \o <<request, request>>
                              ELSE Append(calls, request)
                 /\ guardrail_reply' = reply
                 /\ IF guarded.k = "exc"
                    THEN /\ Halt(guarded)
                         /\ UNCHANGED guardrail_response
                    ELSE /\ guardrail_response' = guarded.v
                         /\ pc' = "done"
                         /\ UNCHANGED error
    /\ UNCHANGED <<variables_json, kernel, nb, kp, kb_reply, documents, rerank_reply,
                   reranked_json, kb_context, prompt, llm_reply, answer>>

(* guardrail_response = apply_output_guardrail(raw_response) *)
GuardrailStep ==
    /\ nb = "guardrail"
    /\ pc = "guardrail"
    /\ LET request == GuardrailRequest(answer)
       IN  \E reply \in GuardrailReplies(answer) :
             LET guarded == apply_output_guardrail(answer, reply)
             IN  /\ calls' = Append(calls, request)
                 /\ guardrail_reply' = reply
                 /\ IF guarded.k = "exc"
                    THEN /\ Halt(guarded)
                         /\ UNCHANGED guardrail_response
                    ELSE /\ guardrail_response' = guarded.v
                         /\ pc' = "done"
                         /\ UNCHANGED error
    /\ UNCHANGED <<variables_json, kernel, nb, kp, kb_reply, documents, rerank_reply, reranked_json, kb_context,
                   prompt, llm_reply, answer>>

(* The LangChain path of Lab 1.7.  The retriever is a library component:  *)
(* it raises, or yields at most number_of_results documents.              *)
Document(s) == Dict([page_content |-> Str(s)])

RetrieverReplies ==
    {BackendError}
    \cup {Ret(List(docs)) :
            docs \in SeqsUpTo({Document(<<"a">>), Document(<<"b", "c">>)}, number_of_results)}

PageContents(docs) == [i \in 1..Len(docs) |-> docs[i].m["page_content"]]

(* lines 420-422: "\n\n".join(doc.page_content for doc in docs) *)
format_docs(docs) == PyJoin(<<NL, NL>>, PageContents(docs.items))

(* lines 314-323: prompt_template with {context} and {question} *)
TemplateHead == "\n<|begin_of_text|>\n<|start_header_id|>system<|end_header_id|>\nYou are an assistant for question-answering tasks. [...]\n<|start_header_id|>user<|end_header_id|>\nContext: "
TemplateQuestion == "Question: "
TemplateTail == "<|start_header_id|>assistant<|end_header_id|> \nAnswer:\n"

PromptTemplate(context, question) ==
    Str(<<TemplateHead>> \o PyStr(context) \o <<" ", NL, TemplateQuestion>>
        \o PyStr(question) \o <<NL, TemplateTail>>)

transform_output_of_any_shape(reply) ==
    Bind(reply, LAMBDA output :
      Bind(JsonLoads(output), LAMBDA response_json : ExtractGeneratedText(response_json)))

(* lines 242-244: ContentHandler.transform_output *)
transform_output(reply) ==
    Bind(reply, LAMBDA output :
      Bind(JsonLoads(output), LAMBDA response_json :
        PyGetItem(response_json, Name("generated_text"))))

(* the endpoint bodies whose generated_text, if any, is a str *)
ChainEndpointReplies == EndpointReplies \ {Ret(Dict([generated_text |-> None]))}

(* lines 453-456: qa_chain.invoke(query): retriever | format_docs, prompt, *)
(* llm, StrOutputParser                                                    *)
QaChainInvoke ==
    /\ nb = "sagemaker_langchain"
    /\ pc = "search"
    /\ LET request == RetrieveRequest(QueryOf(nb), "kb", number_of_results)
       IN  \E reply \in RetrieverReplies :
             /\ kb_reply' = reply
             /\ IF reply.k = "exc"
                THEN /\ Halt(reply)
                     /\ calls' = Append(calls, request)
                     /\ UNCHANGED <<documents, kb_context, prompt, llm_reply, answer>>
                ELSE LET context == format_docs(reply.v)
                         filled == PromptTemplate(context.v, QueryOf(nb))
                     IN  \E generated \in ChainEndpointReplies :
                           LET text == transform_output(generated)
                           IN  /\ documents' = reply.v
                               /\ kb_context' = context.v
                               /\ prompt' = filled
                               /\ llm_reply' = generated
                               /\ calls' = calls \o <<request,
                                    EndpointRequest(filled, "sagemakerLLMEndpoint")>>
                               /\ IF text.k = "exc"
                                  THEN /\ Halt(text)
                                       /\ UNCHANGED answer
                                  ELSE /\ answer' = text.v
                                       /\ pc' = "done"
                                       /\ UNCHANGED error
    /\ UNCHANGED <<variables_json, kernel, nb, kp, rerank_reply, reranked_json, guardrail_reply,
                   guardrail_response>>

InitGuardrail == InitRun({"guardrail"})

NextGuardrail ==
    \/ RetrieveStep
    \/ FormatPromptStep
    \/ GenerateStep
    \/ GuardrailStep

SpecGuardrail == InitGuardrail /\ [][NextGuardrail]_vars

(* Every notebook run of the repository that retrieves and generates *)
InitRag == InitRun({"converse_plain", "converse_rerank", "sagemaker_langchain",
                    "sagemaker_boto3", "guardrail"})

NextRag ==
    \/ PlainSearchCell
    \/ SearchCell
    \/ RerankCell
    \/ ContextCell
    \/ ConverseCell
    \/ QaChainInvoke
    \/ RetrieveStep
    \/ FormatPromptStep
    \/ GenerateStep
    \/ GuardrailStep

SpecRag == InitRag /\ [][NextRag]_vars

-----------------------------------------------------------------------------
(* The setup notebooks and the configuration file variables.json.  Each   *)
(* notebook runs in a kernel of its own: it loads the file into its       *)
(* global `variables` once, and every save writes the whole dictionary    *)
(* back.  The file holds JSON strings and nulls, which json.dump and      *)
(* json.load carry over unchanged, so the file is modelled by the         *)
(* dictionary json.load makes of it.                                      *)

SetupNotebooks == {"lab_1_7", "guardrail_setup"}

(* the dictionary d with key set to value *)
DictWith(d, key, value) ==
    Dict([k \in DOMAIN d.m \cup {key} |-> IF k = key THEN value ELSE d.m[k]])

BaseVariables == Dict([regionName |-> Str(<<"us-west-2">>),
                       kbSemanticChunk |-> Str(<<"KB">>)])

(* what earlier setup steps, or an earlier run of these notebooks, left *)
VariablesFiles ==
    {BaseVariables,
     DictWith(BaseVariables, "sagemakerLLMEndpoint", Str(<<"endpoint-0">>)),
     DictWith(BaseVariables, "guardrail_id", Str(<<"g0">>))}

(* Lab 1.7, lines 111-161: the endpoints of the account, and the search  *)
(* for one whose name contains the model's name                           *)
MaxEndpoints == 2

EndpointMarker == "llama-3-2-3b-instruct"

ExistingEndpoints == {Str(<<"endpoint-", EndpointMarker, "-0">>),
                      Str(<<"my-", EndpointMarker>>), Str(<<"other">>)}

ListEndpointsReplies ==
    {BackendError}
    \cup {Ret(Dict([Endpoints |->
                List([i \in 1..Len(q) |-> Dict([EndpointName |-> q[i]])])])) :
            q \in SeqsUpTo(ExistingEndpoints, MaxEndpoints)}

(* llm_model.deploy(...): it raises, or the endpoint has the name asked for *)
DeployReplies ==
    {BackendError, Ret(Str(<<"endpoint-", EndpointMarker, "-", "2026-11-06">>))}

(* lines 126-130 and 155-159: the loop over endpoints['Endpoints'] *)
RECURSIVE FindEndpointLoop(_, _)
FindEndpointLoop(endpoints, found) ==
    IF endpoints = << >> THEN Ret(found)
    ELSE Bind(PyGetItem(Head(endpoints), Name("EndpointName")), LAMBDA name :
           Bind(PyContains(EndpointMarker, name), LAMBDA matches :
             IF matches THEN Ret(name) ELSE FindEndpointLoop(Tail(endpoints), found)))

(* lines 124-132 and 153-161: try the listing and the loop; an exception  *)
(* leaves llm_endpoint_name as it was                                      *)
FindEndpoint(reply, llm_endpoint_name) ==
    LET r == Bind(reply, LAMBDA listing :
               Bind(PyGetItem(listing, Name("Endpoints")), LAMBDA endpoints :
                 Bind(PyIter(endpoints), LAMBDA items :
                   FindEndpointLoop(items, llm_endpoint_name))))
    IN  IF r.k = "exc" THEN llm_endpoint_name ELSE r.v

CreateGuardrailReplies ==
    {BackendError,
     Ret(Dict([guardrailId |-> Str(<<"g1">>), version |-> Str(<<"DRAFT">>)]))}

CreateGuardrailVersionReplies ==
    {BackendError,
     Ret(Dict([guardrailId |-> Str(<<"g1">>), version |-> Str(<<"1">>)]))}

NewKernel == [pc |-> "load", variables |-> Unset, llm_endpoint_name |-> Unset,
              listing |-> Unset, deployment |-> Unset, fallback |-> Unset,
              response |-> Unset, guardrail_id |-> Unset,
              version_response |-> Unset, guardrail_version |-> Unset]

pipeline_vars == <<nb, pc, kp, kb_reply, documents, rerank_reply, reranked_json,
                   kb_context, prompt, llm_reply, answer, guardrail_reply,
                   guardrail_response, error, calls>>

(* with open("variables.json", "r") as f: variables = json.load(f) *)
LoadVariables(n) ==
    /\ kernel[n].pc = "load"
    /\ kernel' = [kernel EXCEPT ![n].variables = variables_json,
                                ![n].pc = IF n = "lab_1_7" THEN "deploy"
                                          ELSE "create_guardrail"]
    /\ UNCHANGED <<variables_json, pipeline_vars>>

(* Lab 1.7, lines 111-161: find or deploy the endpoint.  The kernel keeps *)
(* what each request of the cell replied, Unset for a request not made.   *)
DeployEndpoint ==
    /\ kernel["lab_1_7"].pc = "deploy"
    /\ \E listing \in ListEndpointsReplies :
          LET first == FindEndpoint(listing, None)
              after(name, deployment, fallback) ==
                  [kernel EXCEPT !["lab_1_7"].llm_endpoint_name = name,
                                 !["lab_1_7"].listing = listing,
                                 !["lab_1_7"].deployment = deployment,
                                 !["lab_1_7"].fallback = fallback,
                                 !["lab_1_7"].pc = "save_endpoint"]
          IN  IF PyTruthy(first)
              THEN kernel' = after(first, Unset, Unset)
              ELSE \E deployment \in DeployReplies :
                     IF deployment.k = "ret"
                     THEN kernel' = after(deployment.v, deployment, Unset)
                     ELSE \E fallback \in ListEndpointsReplies :
                            kernel' = after(FindEndpoint(fallback, first),
                                            deployment, fallback)
    /\ UNCHANGED <<variables_json, pipeline_vars>>

(* Lab 1.7, lines 190-191:                                                *)
(* json.dump({**variables, "sagemakerLLMEndpoint": llm_endpoint_name}, f) *)
SaveEndpoint ==
    /\ kernel["lab_1_7"].pc = "save_endpoint"
    /\ variables_json' = DictWith(kernel["lab_1_7"].variables, "sagemakerLLMEndpoint",
                                  kernel["lab_1_7"].llm_endpoint_name)
    /\ kernel' = [kernel EXCEPT !["lab_1_7"].pc = "end"]
    /\ UNCHANGED pipeline_vars

(* guardrail setup, lines 78-127: response = bedrock.create_guardrail(...) *)
(* and guardrail_id = response['guardrailId']                              *)
CreateGuardrail ==
    /\ kernel["guardrail_setup"].pc = "create_guardrail"
    /\ \E reply \in CreateGuardrailReplies :
          kernel' = IF reply.k = "exc"
                    THEN [kernel EXCEPT !["guardrail_setup"].pc = "halted"]
                    ELSE [kernel EXCEPT
                            !["guardrail_setup"].response = reply.v,
                            !["guardrail_setup"].guardrail_id = reply.v.m["guardrailId"],
                            !["guardrail_setup"].pc = "save_guardrail_id"]
    /\ UNCHANGED <<variables_json, pipeline_vars>>

(* the two saving cells of the guardrail setup: variables[key] = value,  *)
(* then json.dump(variables, f, indent=4, default=str)                    *)
SaveVariable(key, value, next) ==
    LET updated == DictWith(kernel["guardrail_setup"].variables, key, value)
    IN  /\ kernel' = [kernel EXCEPT !["guardrail_setup"].variables = updated,
                                    !["guardrail_setup"].pc = next]
        /\ variables_json' = updated
        /\ UNCHANGED pipeline_vars

(* lines 148-153 *)
SaveGuardrailId ==
    /\ kernel["guardrail_setup"].pc = "save_guardrail_id"
    /\ SaveVariable("guardrail_id", kernel["guardrail_setup"].guardrail_id,
                    "create_guardrail_version")

(* lines 172-175: version_response = bedrock.create_guardrail_version(...) *)
CreateGuardrailVersion ==
    /\ kernel["guardrail_setup"].pc = "create_guardrail_version"
    /\ \E reply \in CreateGuardrailVersionReplies :
          kernel' = IF reply.k = "exc"
                    THEN [kernel EXCEPT !["guardrail_setup"].pc = "halted"]
                    ELSE [kernel EXCEPT
                            !["guardrail_setup"].version_response = reply.v,
                            !["guardrail_setup"].pc = "get_guardrail_version"]
    /\ UNCHANGED <<variables_json, pipeline_vars>>

(* line 193: guardrail_version = version_response['version'] *)
GetGuardrailVersion ==
    /\ kernel["guardrail_setup"].pc = "get_guardrail_version"
    /\ kernel' = [kernel EXCEPT
                    !["guardrail_setup"].guardrail_version =
                        kernel["guardrail_setup"].version_response.m["version"],
                    !["guardrail_setup"].pc = "save_guardrail_version"]
    /\ UNCHANGED <<variables_json, pipeline_vars>>

(* lines 212-217 *)
SaveGuardrailVersion ==
    /\ kernel["guardrail_setup"].pc = "save_guardrail_version"
    /\ SaveVariable("guardrail_version", kernel["guardrail_setup"].guardrail_version,
                    "end")

InitSetup ==
    /\ nb = "setup"
    /\ pc = "setup"
    /\ kp = Unset
    /\ kb_reply = Unset
    /\ documents = Unset
    /\ rerank_reply = Unset
    /\ reranked_json = Unset
    /\ kb_context = Unset
    /\ prompt = Unset
    /\ llm_reply = Unset
    /\ answer = Unset
    /\ guardrail_reply = Unset
    /\ guardrail_response = Unset
    /\ error = NoError
    /\ calls = << >>
    /\ variables_json \in VariablesFiles
    /\ kernel = [n \in SetupNotebooks |-> NewKernel]

NextSetup ==
    \/ \E n \in SetupNotebooks : LoadVariables(n)
    \/ DeployEndpoint
    \/ SaveEndpoint
    \/ CreateGuardrail
    \/ SaveGuardrailId
    \/ CreateGuardrailVersion
    \/ GetGuardrailVersion
    \/ SaveGuardrailVersion

SpecSetup == InitSetup /\ [][NextSetup]_vars

-----------------------------------------------------------------------------
(* The accuracy evaluation loop (lines 1006-1017).  A float is written    *)
(* in thousandths: Float(874) is 0.874.                                   *)
MaxModels == 3

Float(thousandths) == [t |-> "float", thousandths |-> thousandths]

(* round(value, 2); the metrics of the model are no ties *)
Round2(value) == Float(((value.thousandths + 5) \div 10) * 10)

MetricNames == {"llm_context_precision_with_reference", "faithfulness",
                "answer_relevancy"}

(* ragas_report._repr_dict of a report whose metrics all have one value *)
ReprDict(value) == Dict([key \in MetricNames |-> value])

(* evaluator.evaluate(...): a report, or None *)
RagasReports == {None, ReprDict(Float(874)), ReprDict(Float(312)), ReprDict(Float(508)),
                 ReprDict(Num(1))}

(* line 1012: the comprehension rounding the float values *)
RoundedMetrics(repr_dict) ==
    Dict([key \in DOMAIN repr_dict.m |->
            IF repr_dict.m[key].t = "float" THEN Round2(repr_dict.m[key])
            ELSE repr_dict.m[key]])

Evaluation == kernel["evaluation"]

(* one iteration of the loop, lines 1006-1017 *)
EvaluateModel ==
    /\ Evaluation.pc = "loop"
    /\ Evaluation.i <= Len(Evaluation.models)
    /\ \E ragas_report \in RagasReports :
          LET model == Evaluation.models[Evaluation.i]
              eval_metrics == IF ragas_report # None THEN RoundedMetrics(ragas_report)
                              ELSE Evaluation.eval_metrics
              reports == [m \in DOMAIN Evaluation.reports \cup {model} |->
                            IF m = model THEN ragas_report ELSE Evaluation.reports[m]]
          IN  IF eval_metrics = Unset
              THEN kernel' = [kernel EXCEPT
                     !["evaluation"].reports = reports,
                     !["evaluation"].error =
                         Exc("NameError", <<"name 'eval_metrics' is not defined">>),
                     !["evaluation"].pc = "halted"]
              ELSE kernel' = [kernel EXCEPT
                     !["evaluation"].reports = reports,
                     !["evaluation"].eval_metrics = eval_metrics,
                     !["evaluation"].final_evaluation =
                         DictWith(Evaluation.final_evaluation, model,
                                  Dict([key \in MetricNames |-> eval_metrics.m[key]])),
                     !["evaluation"].i = Evaluation.i + 1]
    /\ UNCHANGED <<variables_json, pipeline_vars>>

InitEvaluation ==
    /\ nb = "evaluation"
    /\ pc = "evaluation"
    /\ kp = Unset
    /\ kb_reply = Unset
    /\ documents = Unset
    /\ rerank_reply = Unset
    /\ reranked_json = Unset
    /\ kb_context = Unset
    /\ prompt = Unset
    /\ llm_reply = Unset
    /\ answer = Unset
    /\ guardrail_reply = Unset
    /\ guardrail_response = Unset
    /\ error = NoError
    /\ calls = << >>
    /\ variables_json = Unset
    /\ \E n \in 1..MaxModels :
          kernel = [evaluation |->
                      [pc |-> "loop", models |-> [i \in 1..n |-> ToString(i)], i |-> 1,
                       eval_metrics |-> Unset, final_evaluation |-> Dict(EmptyMap),
                       reports |-> EmptyMap, error |-> NoError]]

SpecEvaluation == InitEvaluation /\ [][EvaluateModel]_vars

-----------------------------------------------------------------------------
(* C1 *)

(* the key indexes the value: a present dict key, or an in-range index of *)
(* a list or a str                                                         *)
IndexableBy(v, key) ==
    \/ v.t = "dict" /\ key.kt = "name" /\ key.name \in DOMAIN v.m
    \/ v.t = "list" /\ key.kt = "idx" /\ key.i \in (-Len(v.items))..(Len(v.items) - 1)
    \/ v.t = "str" /\ key.kt = "idx" /\ key.i \in (-Len(v.s))..(Len(v.s) - 1)

Indexed(v, key) ==
    CASE v.t = "dict" -> v.m[key.name]
      [] v.t = "list" -> v.items[IF key.i < 0 THEN Len(v.items) + key.i + 1 ELSE key.i + 1]
      [] OTHER -> Str(<<v.s[IF key.i < 0 THEN Len(v.s) + key.i + 1 ELSE key.i + 1]>>)

RECURSIVE EveryStepSucceeds(_, _)
EveryStepSucceeds(v, path) ==
    \/ path = << >>
    \/ /\ IndexableBy(v, Head(path))
       /\ EveryStepSucceeds(Indexed(v, Head(path)), Tail(path))

RECURSIVE ValueReached(_, _)
ValueReached(v, path) ==
    IF path = << >> THEN v ELSE ValueReached(Indexed(v, Head(path)), Tail(path))

(* C1: get_value_by_key_path(d, path) never raises; it returns None when   *)
(* some step of the path does not index the current value (wrong type,     *)
(* absent key, index out of range) and otherwise the value reached by      *)
(* indexing d with the keys of path in order (d itself for the empty path) *)
C1_KeyPathTotal ==
    (nb = "keypath" /\ pc = "returned") =>
        /\ kp.out.k = "ret"
        /\ IF EveryStepSucceeds(kp.d, kp.path)
           THEN kp.out.v = ValueReached(kp.d, kp.path)
           ELSE kp.out.v = None

(* a path whose second step indexes past the end of a list returned None *)
C1_Witness ==
    /\ nb = "keypath" /\ pc = "returned"
    /\ Len(kp.path) >= 2
    /\ IndexableBy(kp.d, kp.path[1])
    /\ Indexed(kp.d, kp.path[1]).t = "list"
    /\ kp.path[2].kt = "idx"
    /\ ~IndexableBy(Indexed(kp.d, kp.path[1]), kp.path[2])
    /\ kp.out = Ret(None)

-----------------------------------------------------------------------------
(* Claims about rerank_results and the reranked context (SpecConverse) *)

Reranked == nb = "converse_rerank" /\ reranked_json # Unset

(* the results of the rerank backend's reply, in the order it gave them *)
BackendRerankResults ==
    IF "results" \in DOMAIN rerank_reply.v.m THEN rerank_reply.v.m.results.items ELSE << >>

RerankedEntries == reranked_json.m.reranked_results.items

(* C5: the new_position values of the list rerank_results returns are     *)
(* exactly 1, 2, ..., N in list order, N being the number of results the  *)
(* backend returned, and N is at most the requested reranked_result_count *)
C5_NewPositionsContiguous ==
    Reranked =>
        /\ Len(RerankedEntries) = Len(BackendRerankResults)
        /\ \A i \in 1..Len(RerankedEntries) : RerankedEntries[i].m.new_position = Num(i)
        /\ Len(RerankedEntries) <= reranked_result_count

(* two results came back, the last passage first *)
C5_Witness ==
    /\ Reranked
    /\ Len(RerankedEntries) = 2
    /\ RerankedEntries[1].m.original_position = Num(3)
    /\ RerankedEntries[2].m.original_position = Num(1)
    /\ RerankedEntries[2].m.new_position = Num(2)

(* C6: every entry rerank_results returns has original_position equal to  *)
(* the backend's index plus 1, within 1..len(passages), and the text of   *)
(* the passage at that position, whatever index the backend returned      *)
(* (absent and negative ones included)                                     *)
C6_OriginalPositionInRange ==
    Reranked =>
        \A i \in 1..Len(RerankedEntries) :
            LET entry == RerankedEntries[i].m
                result == BackendRerankResults[i].m
            IN  /\ "index" \in DOMAIN result =>
                        entry.original_position = Num(result.index.n + 1)
                /\ entry.original_position.n >= 1
                /\ entry.original_position.n <= Len(documents.items)
                /\ entry.text = documents.items[entry.original_position.n]

(* C9: the context string in the prompt is the texts of exactly the       *)
(* reranked passages in new_position order, with a double newline between *)
(* consecutive texts and nothing else                                      *)
EntryTexts == [i \in 1..Len(RerankedEntries) |-> RerankedEntries[i].m.text]

PromptOfContext(context) == Str(<<SystemPromptHead>> \o context \o <<NL>>)

C9_ContextIsJoinedTopK ==
    (nb = "converse_rerank" /\ pc = "done") =>
        prompt = PromptOfContext(JoinPieces(<<NL, NL>>, EntryTexts))

RECURSIVE EachFollowedBySeparator(_)
EachFollowedBySeparator(texts) ==
    IF texts = << >> THEN << >>
    ELSE texts[1].s \o <<NL, NL>> \o EachFollowedBySeparator(Tail(texts))

(* C9 as amended: the context string in the prompt is the texts of the    *)
(* reranked passages the backend returned (at most k), in new_position    *)
(* order, each text followed by a double newline, the last one included   *)
C9_ContextIsEachTextThenSeparator ==
    (nb = "converse_rerank" /\ pc = "done") =>
        /\ Len(RerankedEntries) <= reranked_result_count
        /\ \A i \in 1..Len(RerankedEntries) : RerankedEntries[i].m.new_position = Num(i)
        /\ prompt = PromptOfContext(EachFollowedBySeparator(EntryTexts))

(* three passages retrieved, two kept, in an order that is not theirs *)
C9_Witness ==
    /\ nb = "converse_rerank" /\ pc = "done"
    /\ Len(documents.items) = 3
    /\ Len(RerankedEntries) = 2
    /\ RerankedEntries[1].m.text = Str(<<"b", "c">>)
    /\ RerankedEntries[2].m.text = Str(<<"a">>)
    /\ prompt.s = <<SystemPromptHead, "b", "c", NL, NL, "a", NL, NL, NL>>

-----------------------------------------------------------------------------
(* Claims about search_kb (SpecConverse) *)

Searched == nb = "converse_rerank" /\ documents # Unset

BackendResults ==
    IF "retrievalResults" \in DOMAIN kb_reply.v.m
    THEN kb_reply.v.m.retrievalResults.items ELSE << >>

(* every result of the reply has a content.text that is a str *)
WellFormedRetrieval ==
    /\ kb_reply.k = "ret"
    /\ "retrievalResults" \in DOMAIN kb_reply.v.m
    /\ \A i \in 1..Len(BackendResults) :
          /\ "content" \in DOMAIN BackendResults[i].m
          /\ "text" \in DOMAIN BackendResults[i].m.content.m
          /\ BackendResults[i].m.content.m.text.t = "str"

(* C7: for a well-formed response, search_kb returns at most numberOfResults passages, one per        *)
(* backend result in the backend's order, and the returned value exposes, *)
(* for the passage of the i-th result, its position i and its relevance   *)
(* score                                                                   *)
C7_ReturnsPositionsAndScores ==
    (Searched /\ WellFormedRetrieval) =>
        /\ Len(documents.items) <= numberOfResults_rerank
        /\ Len(documents.items) = Len(BackendResults)
        /\ \A i \in 1..Len(documents.items) :
              /\ documents.items[i].t = "dict"
              /\ documents.items[i].m.position = Num(i)
              /\ "scoreValue" \in DOMAIN BackendResults[i].m =>
                    documents.items[i].m.score = BackendResults[i].m.scoreValue

-----------------------------------------------------------------------------
(* Claims about apply_output_guardrail (SpecGuardrail) *)

Guarded == nb = "guardrail" /\ guardrail_reply # Unset

(* the text field of the first output of the reply, Unset when the reply  *)
(* has none: the call raised, the response is no mapping, it has no       *)
(* outputs, its outputs is empty or no list, or its first output is no    *)
(* mapping with a text field                                               *)
FirstOutputText(reply) ==
    IF /\ reply.k = "ret"
       /\ reply.v.t = "dict"
       /\ "outputs" \in DOMAIN reply.v.m
       /\ reply.v.m.outputs.t = "list"
       /\ Len(reply.v.m.outputs.items) > 0
       /\ reply.v.m.outputs.items[1].t = "dict"
       /\ "text" \in DOMAIN reply.v.m.outputs.items[1].m
    THEN reply.v.m.outputs.items[1].m.text
    ELSE Unset

(* the response has the shape of the interface: a mapping whose outputs,  *)
(* if present, is a list of mappings with a str text                      *)
WellFormedGuardrailResponse(reply) ==
    /\ reply.k = "ret"
    /\ reply.v.t = "dict"
    /\ "outputs" \in DOMAIN reply.v.m =>
          /\ reply.v.m.outputs.t = "list"
          /\ \A i \in 1..Len(reply.v.m.outputs.items) :
                /\ reply.v.m.outputs.items[i].t = "dict"
                /\ "text" \in DOMAIN reply.v.m.outputs.items[i].m
                /\ reply.v.m.outputs.items[i].m.text.t = "str"

PassedThrough == pc = "done" /\ error = NoError /\ guardrail_response = answer

(* C2: whenever the policy-service call raises, or its response is        *)
(* malformed or lacks the expected fields, apply_output_guardrail does    *)
(* not raise and returns its input text                                    *)
C2_PassThroughOnAnyMalformedResponse ==
    (Guarded /\ ~WellFormedGuardrailResponse(guardrail_reply)) => PassedThrough

(* C2 as amended: whenever the policy-service call raises, or the         *)
(* response yields no first-output text, apply_output_guardrail does not  *)
(* raise and returns its input text; a response whose first output has a  *)
(* text field is not examined further, and that field's value is returned *)
C2_PassThroughWhenNoFirstOutputText ==
    Guarded =>
        /\ pc = "done" /\ error = NoError
        /\ IF FirstOutputText(guardrail_reply) = Unset
           THEN guardrail_response = answer
           ELSE guardrail_response = FirstOutputText(guardrail_reply)

(* the first output of the response had no text field, and the generated  *)
(* text came back as it went in                                            *)
C2_Witness ==
    /\ Guarded
    /\ guardrail_reply = Ret(GuardrailOutputs(List(<<Dict(EmptyMap)>>)))
    /\ answer = Str(<<"buy", " ", "the", " ", "stock">>)
    /\ PassedThrough

(* C3: for a response of the interface's shape, apply_output_guardrail    *)
(* returns the text of the first output, a string, when the outputs list  *)
(* is non-empty, and its input text when the outputs list is absent or    *)
(* empty                                                                   *)
C3_FirstOutputTextOrInput ==
    (Guarded /\ WellFormedGuardrailResponse(guardrail_reply)) =>
        /\ pc = "done" /\ error = NoError
        /\ IF /\ "outputs" \in DOMAIN guardrail_reply.v.m
              /\ Len(guardrail_reply.v.m.outputs.items) > 0
           THEN /\ guardrail_response = guardrail_reply.v.m.outputs.items[1].m.text
                /\ guardrail_response.t = "str"
           ELSE guardrail_response = answer

(* two outputs came back and the text of the first replaced the           *)
(* generated text                                                          *)
C3_Witness ==
    /\ Guarded
    /\ WellFormedGuardrailResponse(guardrail_reply)
    /\ "outputs" \in DOMAIN guardrail_reply.v.m
    /\ Len(guardrail_reply.v.m.outputs.items) = 2
    /\ answer = Str(<<"buy", " ", "the", " ", "stock">>)
    /\ guardrail_response = Str(<<"{NAME}">>)

-----------------------------------------------------------------------------
(* Claims about generate_response (SpecRag) *)

Generated == nb \in {"sagemaker_boto3", "guardrail"} /\ llm_reply # Unset

(* the text of a body of one of the three accepted shapes, else Unset *)
AcceptedText(reply) ==
    IF reply.k = "exc" THEN Unset
    ELSE LET body == reply.v
         IN  IF body.t = "list"
             THEN IF /\ Len(body.items) > 0
                     /\ body.items[1].t = "dict"
                     /\ "generated_text" \in DOMAIN body.items[1].m
                  THEN body.items[1].m.generated_text
                  ELSE Unset
             ELSE IF body.t = "dict" /\ "generated_text" \in DOMAIN body.m
                  THEN body.m.generated_text
                  ELSE IF body.t = "dict" /\ "generation" \in DOMAIN body.m
                       THEN body.m.generation
                       ELSE Unset

(* C4: a body that is a list whose first element has generated_text X, a  *)
(* mapping with generated_text X, or a mapping with generation X yields   *)
(* X; every other response (an empty list, a first element without        *)
(* generated_text, a mapping with neither key, a bare string or number, a *)
(* body that is no JSON, a failed call) raises and returns no text        *)
C4_AcceptedShapesYieldTextOthersRaise ==
    Generated =>
        IF AcceptedText(llm_reply) # Unset
        THEN /\ answer = AcceptedText(llm_reply)
             /\ error = NoError
        ELSE /\ pc = "halted"
             /\ error.k = "exc" /\ error.exc = "RuntimeError"
             /\ error.msg[1] = "Generation failed: "
             /\ answer = Unset

(* the body was a list whose first element has generation but no          *)
(* generated_text, and the call raised                                     *)
C4_Witness ==
    /\ Generated
    /\ nb = "sagemaker_boto3"
    /\ llm_reply = Ret(List(<<Dict([generation |-> Str(<<"x">>)])>>))
    /\ pc = "halted"
    /\ error = Exc("RuntimeError", <<"Generation failed: ", "'", "generated_text", "'">>)
    /\ answer = Unset

-----------------------------------------------------------------------------
(* Claims about the retrieval operations (SpecRag) *)

RetrievalFailurePrefix == "Bedrock retrieval failed: "

CalledSearchKb == nb \in {"converse_plain", "converse_rerank"} /\ kb_reply # Unset
CalledRetrieveFromBedrock == nb \in {"sagemaker_boto3", "guardrail"} /\ kb_reply # Unset

NothingReturned == documents = Unset /\ pc = "halted"

(* C8: in search_kb and in both retrieve_from_bedrock variants, an error  *)
(* of the backend call or of reading its response is re-raised as one     *)
(* retrieval failure whose message carries the original error text, and   *)
(* no list of passages is returned after an error                         *)
C8_EveryRetrievalWrapsErrors ==
    (CalledSearchKb \/ CalledRetrieveFromBedrock) =>
        /\ kb_reply.k = "exc" =>
              /\ NothingReturned
              /\ error = Exc("RuntimeError", <<RetrievalFailurePrefix>> \o kb_reply.msg)
        /\ documents = Unset =>
              /\ pc = "halted"
              /\ error.exc = "RuntimeError"
              /\ error.msg[1] = RetrievalFailurePrefix
              /\ Len(error.msg) > 1

(* C8 as amended: both retrieve_from_bedrock variants re-raise an error   *)
(* of the backend call or of reading its response as one retrieval        *)
(* failure whose message is "Bedrock retrieval failed: " and the original *)
(* error text; search_kb catches nothing, the original error leaves it    *)
(* unchanged; none of the three returns a list of passages after an error *)
C8_RetrieveFromBedrockWrapsSearchKbPropagates ==
    /\ CalledRetrieveFromBedrock =>
          /\ kb_reply.k = "exc" =>
                /\ NothingReturned
                /\ error = Exc("RuntimeError", <<RetrievalFailurePrefix>> \o kb_reply.msg)
          /\ (kb_reply.k = "ret" /\ "retrievalResults" \notin DOMAIN kb_reply.v.m) =>
                /\ NothingReturned
                /\ error = Exc("RuntimeError",
                               <<RetrievalFailurePrefix, "'", "retrievalResults", "'">>)
          /\ documents = Unset =>
                /\ pc = "halted"
                /\ error.exc = "RuntimeError"
                /\ error.msg[1] = RetrievalFailurePrefix
                /\ Len(error.msg) > 1
    /\ CalledSearchKb =>
          /\ kb_reply.k = "exc" => (NothingReturned /\ error = kb_reply)
          /\ documents = Unset =>
                /\ pc = "halted"
                /\ error.k = "exc"
                /\ error.exc # "RuntimeError"
    /\ (CalledSearchKb \/ CalledRetrieveFromBedrock) =>
          (documents # Unset =>
                /\ kb_reply.k = "ret"
                /\ Len(documents.items) = Len(BackendResults))

(* the second of two results had no content: the guardrail notebook's    *)
(* retrieve_from_bedrock returned nothing and raised the retrieval        *)
(* failure with the KeyError's text                                        *)
C8_Witness ==
    /\ CalledRetrieveFromBedrock
    /\ nb = "guardrail"
    /\ Len(BackendResults) = 2
    /\ BackendResults[1] = TextResult(<<"a">>)
    /\ BackendResults[2] = NoContentResult
    /\ NothingReturned
    /\ error = Exc("RuntimeError", <<RetrievalFailurePrefix, "'", "content", "'">>)

-----------------------------------------------------------------------------
(* Claims about prompt assembly (SpecRag) *)

AllStr(items) == \A i \in 1..Len(items) : items[i].t = "str"

(* the passages of the run, in order *)
PassageTexts ==
    IF nb = "sagemaker_langchain" THEN PageContents(documents.items) ELSE documents.items

JoinedPassages == JoinPieces(<<NL, NL>>, PassageTexts)

(* the prompt of each path with the given context in its slot *)
PromptAround(context) ==
    CASE nb = "converse_plain" -> <<SystemPromptHead>> \o context \o <<NL>>
      [] nb = "sagemaker_langchain" ->
            <<TemplateHead>> \o context \o <<" ", NL, TemplateQuestion>>
            \o SageMakerQuery.s \o <<NL, TemplateTail>>
      [] nb = "sagemaker_boto3" ->
            <<Llama3Head>> \o context \o <<" ", NL, Indent, Llama3Question>>
            \o SageMakerQuery.s \o <<NL, Indent, Llama3Tail>>
      [] OTHER ->
            <<GuardrailHead, GuardrailSystemHead>> \o context
            \o <<"\"", NL, "    ", NL, Indent, GuardrailUser>>
            \o GuardrailQuery.s \o <<NL, Indent, GuardrailTail>>

(* C10: in the converse path, the LangChain format_docs path, the boto3   *)
(* format_prompt path of Lab 1.7 and format_prompt of the guardrail       *)
(* notebook, the context interpolated into the prompt is the passage      *)
(* texts in order joined by a double newline, none dropped or truncated   *)
C10_ContextIsDoubleNewlineJoin ==
    (/\ nb \in {"converse_plain", "sagemaker_langchain", "sagemaker_boto3", "guardrail"}
     /\ prompt # Unset
     /\ AllStr(PassageTexts)) =>
        prompt.s = PromptAround(JoinedPassages)

-----------------------------------------------------------------------------
(* Claims about invoke_converse (SpecInvokeConverse) *)

ConverseReturned == nb = "invoke_converse" /\ llm_reply # Unset

(* C11: invoke_converse submits exactly one user turn holding            *)
(* user_prompt, the system prompt as a separate system field, and an      *)
(* inference configuration whose temperature and max-token limit are the  *)
(* values the caller passed                                                *)
C11_RequestCarriesCallerValues ==
    ConverseReturned =>
        /\ Len(calls) = 1
        /\ calls[1].messages = <<[role |-> "user", content |-> <<[text |-> kp.user_prompt]>>]>>
        /\ calls[1].system = <<[text |-> kp.system_prompt]>>
        /\ calls[1].inferenceConfig.temperature = kp.temperature
        /\ calls[1].inferenceConfig.maxTokens = kp.max_tokens

(* the reply is a response whose HTTP status is not 200 *)
NonSuccess(reply) ==
    /\ reply.k = "ret"
    /\ "ResponseMetadata" \in DOMAIN reply.v.m
    /\ "HTTPStatusCode" \in DOMAIN reply.v.m.ResponseMetadata.m
    /\ reply.v.m.ResponseMetadata.m.HTTPStatusCode # Num(200)

HasErrorMessage(reply) ==
    /\ "Error" \in DOMAIN reply.v.m
    /\ "Message" \in DOMAIN reply.v.m.Error.m

StatusText(reply) == ToString(reply.v.m.ResponseMetadata.m.HTTPStatusCode.n)

(* C12: on a response whose HTTP status is not 200, invoke_converse does  *)
(* not raise and returns as text an error string that embeds the status   *)
(* code and the backend error message, a response without Error.Message   *)
(* included                                                                *)
C12_NonSuccessGivesErrorString ==
    (ConverseReturned /\ NonSuccess(llm_reply)) =>
        /\ kp.out.k = "ret"
        /\ kp.out.v[1].t = "str"
        /\ Len(kp.out.v[1].s) >= 2
        /\ kp.out.v[1].s[1] = "Error: "
        /\ kp.out.v[1].s[2] = StatusText(llm_reply)

(* C12 as amended: on a response whose HTTP status is not 200,            *)
(* invoke_converse does not raise; when the response carries              *)
(* Error.Message it returns the text "Error: <status> - <message>" with   *)
(* the raw response, and when it carries none it returns None for both    *)
C12_ErrorStringOnlyWithErrorMessage ==
    (ConverseReturned /\ NonSuccess(llm_reply)) =>
        /\ kp.out.k = "ret"
        /\ IF HasErrorMessage(llm_reply)
           THEN kp.out.v = <<Str(<<"Error: ", StatusText(llm_reply), " - ">>
                                 \o llm_reply.v.m.Error.m.Message.s),
                             llm_reply.v>>
           ELSE kp.out.v = <<None, None>>

(* a 500 response with the message "throttled" came back as the error     *)
(* string                                                                  *)
C12_Witness ==
    /\ ConverseReturned
    /\ NonSuccess(llm_reply)
    /\ kp.out = Ret(<<Str(<<"Error: ", "500", " - ", "throttled">>), llm_reply.v>>)

(* the response has status 200 and a content list under output.message *)
HasContentList(reply) ==
    /\ reply.k = "ret"
    /\ ~NonSuccess(reply)
    /\ "output" \in DOMAIN reply.v.m
    /\ "message" \in DOMAIN reply.v.m.output.m
    /\ "content" \in DOMAIN reply.v.m.output.m.message.m
    /\ reply.v.m.output.m.message.m.content.t = "list"

(* the text fragments of a content list, null and absent ones skipped *)
RECURSIVE FragmentTexts(_)
FragmentTexts(items) ==
    IF items = << >> THEN << >>
    ELSE (IF "text" \in DOMAIN Head(items).m /\ Head(items).m.text.t = "str"
          THEN Head(items).m.text.s ELSE << >>) \o FragmentTexts(Tail(items))

(* C14: invoke_converse never raises; it returns the response text with   *)
(* the raw response on success, and None for both elements of the pair    *)
(* whenever an error occurs inside it, a 200 response without             *)
(* output.message.content included                                         *)
C14_NeverRaisesNoneOnError ==
    ConverseReturned =>
        /\ kp.out.k = "ret"
        /\ pc = "returned" /\ error = NoError
        /\ llm_reply.k = "exc" => kp.out.v = <<None, None>>
        /\ HasContentList(llm_reply) =>
              kp.out.v = <<Str(FragmentTexts(llm_reply.v.m.output.m.message.m.content.items)),
                           llm_reply.v>>
        /\ (llm_reply.k = "ret" /\ ~NonSuccess(llm_reply) /\ ~HasContentList(llm_reply)) =>
              kp.out.v = <<None, None>>

(* a 200 response without output came back as (None, None) *)
C14_Witness ==
    /\ ConverseReturned
    /\ llm_reply = Ret(Dict([ResponseMetadata |-> Dict([HTTPStatusCode |-> Num(200)])]))
    /\ kp.out = Ret(<<None, None>>)

-----------------------------------------------------------------------------
(* Claims about transport failures of the generation backends (SpecRag) *)

ConverseCalled == nb \in {"converse_plain", "converse_rerank"} /\ llm_reply # Unset

(* the message ends with the text of the cause *)
CarriesCause(msg, cause) ==
    /\ Len(msg) >= Len(cause)
    /\ SubSeq(msg, Len(msg) - Len(cause) + 1, Len(msg)) = cause

(* C13: on both generation paths (invoke_converse, generate_response) a   *)
(* transport failure of the backend call reaches the caller as a          *)
(* generation failure that includes the underlying cause, never as a      *)
(* normal result                                                           *)
C13_TransportFailureSurfacesWithCause ==
    ((ConverseCalled \/ Generated) /\ llm_reply.k = "exc") =>
        /\ pc = "halted"
        /\ error.k = "exc"
        /\ CarriesCause(error.msg, llm_reply.msg)
        /\ answer = Unset

(* C13 as amended: a transport failure of generate_response's backend     *)
(* call reaches the caller as RuntimeError "Generation failed: " followed *)
(* by the cause, and nothing is returned; a transport failure inside      *)
(* invoke_converse is caught there, the caller receives the pair          *)
(* (None, None) and no exception, and the run goes on                     *)
C13_GenerateRaisesConverseReturnsNone ==
    /\ (Generated /\ llm_reply.k = "exc") =>
          /\ pc = "halted"
          /\ error = Exc("RuntimeError", <<"Generation failed: ">> \o llm_reply.msg)
          /\ answer = Unset
    /\ (ConverseCalled /\ llm_reply.k = "exc") =>
          /\ pc = "done"
          /\ error = NoError
          /\ answer = <<None, None>>

(* the endpoint call of the Lab 1.7 pipeline failed and the run halted    *)
(* with the wrapped cause                                                  *)
C13_Witness ==
    /\ Generated
    /\ nb = "sagemaker_boto3"
    /\ llm_reply = BackendError
    /\ pc = "halted"
    /\ error = Exc("RuntimeError", <<"Generation failed: ">> \o BackendError.msg)

-----------------------------------------------------------------------------
(* Claims about a blocked answer (SpecGuardrail) *)

(* the guardrail blocked the generated text *)
GuardrailBlocks == Guarded /\ guardrail_reply = BlockedReply(calls[Len(calls)])

(* C15: when the guardrail blocks the generated answer to the             *)
(* investment-advice query, the final answer of the pipeline is exactly   *)
(* the blocked-message string configured on the guardrail and not the     *)
(* generated text                                                          *)
C15_BlockedAnswerIsConfiguredMessage ==
    GuardrailBlocks =>
        /\ pc = "done" /\ error = NoError
        /\ calls[Len(calls)].source = "OUTPUT"
        /\ guardrail_response = BlockedOutputsMessaging
        /\ guardrail_response # answer

(* the endpoint advised to buy the stock and the final answer is the      *)
(* configured message                                                      *)
C15_Witness ==
    /\ GuardrailBlocks
    /\ answer = Str(<<"buy", " ", "the", " ", "stock">>)
    /\ guardrail_response = Str(<<"Response modified per compliance guidelines.">>)

(* C16: in the investment-advice run, the guardrail being applied to the  *)
(* generated output (source OUTPUT), the answer returned when the         *)
(* guardrail blocks is "This request cannot be processed due to safety    *)
(* protocols"                                                              *)
C16_BlockedAnswerIsSafetyProtocolsMessage ==
    GuardrailBlocks =>
        guardrail_response = Str(<<"This request cannot be processed due to safety protocols.">>)

-----------------------------------------------------------------------------
(* Claims about the order of the stages of a run (SpecRag) *)

(* the stage a backend call belongs to: retrieve 1, rerank 2, generate 4, *)
(* output guardrail 5 (prompt assembly, 3, calls no backend)              *)
StageRank(api) ==
    CASE api = "retrieve" -> 1
      [] api = "rerank" -> 2
      [] api \in {"converse", "invoke_endpoint"} -> 4
      [] OTHER -> 5

(* the prompt a generation request carries *)
PromptOfRequest(request) ==
    IF request.api = "converse" THEN request.system[1].text ELSE request.Body.inputs

(* the backend calls were issued in the order of the stages, each after   *)
(* the stage before it had returned its value, and the guardrail was      *)
(* given the text generation returned                                      *)
StagesInOrder ==
    /\ \A i, j \in 1..Len(calls) :
          i < j => StageRank(calls[i].api) < StageRank(calls[j].api)
    /\ \A i \in 1..Len(calls) :
          /\ calls[i].api = "rerank" =>
                (documents # Unset /\ calls[i].sources = documents.items)
          /\ calls[i].api \in {"converse", "invoke_endpoint"} =>
                /\ documents # Unset
                /\ nb = "converse_rerank" => (reranked_json # Unset /\ kb_context # Unset)
                /\ prompt # Unset
                /\ PromptOfRequest(calls[i]) = prompt
          /\ calls[i].api = "apply_guardrail" =>
                /\ answer # Unset
                /\ calls[i].content = <<[text |-> [text |-> answer]]>>

EndsWithGuardrail ==
    /\ calls # << >>
    /\ calls[Len(calls)].api = "apply_guardrail"
    /\ guardrail_reply # Unset
    /\ guardrail_response # Unset

(* C17: in every run the stages execute in the order retrieve, (optional) *)
(* rerank, prompt assembly, generate, output guardrail, a backend call    *)
(* being issued only after the previous stage returned; the guardrail is  *)
(* applied to exactly the generated text and the final answer is the      *)
(* guardrail's return value                                                *)
C17_EveryRunEndsWithGuardrail ==
    /\ StagesInOrder
    /\ pc = "done" => EndsWithGuardrail

(* C17 as amended: the stages execute in that order, a backend call being *)
(* issued only after the previous stage returned; the output guardrail    *)
(* stage exists in the guardrail notebook only, where it is applied to    *)
(* exactly the generated text and the final answer is its return value;   *)
(* in the other runs no guardrail is called and the final answer is what  *)
(* generation returned                                                     *)
C17_StagesInOrderGuardrailOnlyInItsNotebook ==
    /\ StagesInOrder
    /\ pc = "done" =>
          IF nb = "guardrail"
          THEN EndsWithGuardrail
          ELSE /\ answer # Unset
               /\ guardrail_reply = Unset /\ guardrail_response = Unset
               /\ \A i \in 1..Len(calls) : calls[i].api # "apply_guardrail"

(* a run of the guardrail notebook went through its three backends in     *)
(* order and ended with the guardrail's text                               *)
C17_Witness ==
    /\ nb = "guardrail" /\ pc = "done"
    /\ Len(calls) = 3
    /\ calls[1].api = "retrieve"
    /\ calls[2].api = "invoke_endpoint"
    /\ calls[3].api = "apply_guardrail"
    /\ calls[3].content = <<[text |-> [text |-> Str(<<"x">>)]]>>
    /\ guardrail_response = Str(<<"{NAME}">>)

-----------------------------------------------------------------------------
(* Claims about which errors halt a run (SpecRag) *)

RetrievalError == kb_reply # Unset /\ kb_reply.k = "exc"
GenerationError == llm_reply # Unset /\ llm_reply.k = "exc"
GuardrailError == guardrail_reply # Unset /\ guardrail_reply.k = "exc"

(* the run stopped with an exception at a call to one of the apis: no     *)
(* later call was made and nothing was delivered                           *)
HaltedAt(apis) ==
    /\ pc = "halted"
    /\ error.k = "exc"
    /\ answer = Unset
    /\ guardrail_response = Unset
    /\ calls # << >>
    /\ calls[Len(calls)].api \in apis

(* the guardrail's error was recovered: the run ended with the generated  *)
(* answer                                                                  *)
GuardrailRecovered ==
    /\ pc = "done"
    /\ error = NoError
    /\ answer # Unset
    /\ guardrail_response = answer

(* C18: in every run, on either generation backend, a retrieval error or  *)
(* a generation error is surfaced to the caller and halts the run, so     *)
(* that no later stage is invoked and no answer is delivered; a guardrail *)
(* error is the only error recovered silently, and after it the run still *)
(* delivers the generated answer                                           *)
C18_OnlyGuardrailErrorsAreRecovered ==
    /\ RetrievalError => HaltedAt({"retrieve"})
    /\ GenerationError => HaltedAt({"converse", "invoke_endpoint"})
    /\ GuardrailError => GuardrailRecovered
    /\ pc = "done" => (~RetrievalError /\ ~GenerationError)

(* C18 as amended: a retrieval error halts every run; a generation error  *)
(* halts the runs that generate through the SageMaker endpoint            *)
(* (generate_response, the LangChain chain), while invoke_converse        *)
(* catches it, returns (None, None) and the run completes with that pair  *)
(* as its answer; a guardrail error is recovered and the run delivers the *)
(* generated answer                                                        *)
C18_ConverseAndGuardrailErrorsAreRecovered ==
    /\ RetrievalError => HaltedAt({"retrieve"})
    /\ (GenerationError /\ ~ConverseCalled) => HaltedAt({"invoke_endpoint"})
    /\ (GenerationError /\ ConverseCalled) =>
          /\ pc = "done"
          /\ error = NoError
          /\ answer = <<None, None>>
          /\ calls[Len(calls)].api = "converse"
    /\ GuardrailError => GuardrailRecovered
    /\ pc = "done" => (~RetrievalError /\ (GenerationError => ConverseCalled))

(* the guardrail call of a run failed after generation had succeeded, and *)
(* the run ended with the generated answer                                 *)
C18_Witness ==
    /\ nb = "guardrail"
    /\ GuardrailError
    /\ llm_reply.k = "ret"
    /\ pc = "done"
    /\ guardrail_response = answer
    /\ answer = Str(<<"buy", " ", "the", " ", "stock">>)

-----------------------------------------------------------------------------
(* Claims about the configuration file (SpecSetup) *)

(* the key each saving cell saves *)
SavedKey == [save_endpoint |-> "sagemakerLLMEndpoint",
             save_guardrail_id |-> "guardrail_id",
             save_guardrail_version |-> "guardrail_version"]

(* notebook n's saving cell ran in this step, and the file it wrote holds *)
(* every key the file held before with the same value, except the key     *)
(* being saved, and no other new key                                       *)
WriteKeepsOtherKeys(n) ==
    LET cell == kernel[n].pc
    IN  (cell \in DOMAIN SavedKey /\ kernel'[n].pc # cell) =>
           /\ \A k \in DOMAIN variables_json.m :
                 /\ k \in DOMAIN variables_json'.m
                 /\ k # SavedKey[cell] => variables_json'.m[k] = variables_json.m[k]
           /\ DOMAIN variables_json'.m \subseteq
                 DOMAIN variables_json.m \cup {SavedKey[cell]}

(* C19: variables.json is append-only: every write of it by a setup step  *)
(* (saving the endpoint name, the guardrail id, the guardrail version)    *)
(* keeps every key, with its value, that the file held immediately before *)
(* that write and changes only the key being saved, in every order of the *)
(* setup notebooks' read and write steps                                  *)
C19_EveryWriteKeepsOtherKeys ==
    [][\A n \in SetupNotebooks : WriteKeepsOtherKeys(n)]_vars

-----------------------------------------------------------------------------
(* Claims about the order of generate_response's checks (SpecRag) *)

(* the parsed body generate_response was given is a list / a mapping *)
ListBody == Generated /\ llm_reply.k = "ret" /\ llm_reply.v.t = "list"
MappingBody == Generated /\ llm_reply.k = "ret" /\ llm_reply.v.t = "dict"

(* C20: generate_response checks the parsed response in a fixed order:    *)
(* list first (the first element's generated_text), then a mapping with   *)
(* generated_text, then a mapping with generation; so a mapping with both *)
(* keys yields the generated_text value, and generation is used only when *)
(* generated_text is absent                                                *)
C20_ListThenGeneratedTextThenGeneration ==
    /\ ListBody =>
          IF pc = "halted"
          THEN answer = Unset
          ELSE /\ llm_reply.v.items # << >>
               /\ llm_reply.v.items[1].t = "dict"
               /\ "generated_text" \in DOMAIN llm_reply.v.items[1].m
               /\ answer = llm_reply.v.items[1].m["generated_text"]
    /\ (MappingBody /\ "generated_text" \in DOMAIN llm_reply.v.m) =>
          /\ pc # "halted"
          /\ answer = llm_reply.v.m["generated_text"]
    /\ (MappingBody /\ "generated_text" \notin DOMAIN llm_reply.v.m) =>
          IF "generation" \in DOMAIN llm_reply.v.m
          THEN pc # "halted" /\ answer = llm_reply.v.m["generation"]
          ELSE pc = "halted" /\ answer = Unset

(* the body was a mapping with both keys and the generated_text value was *)
(* returned, not the generation value                                      *)
C20_Witness ==
    /\ nb = "sagemaker_boto3"
    /\ llm_reply = Ret(Dict([generated_text |-> Str(<<"x">>),
                             generation |-> Str(<<"y">>)]))
    /\ pc = "done"
    /\ answer = Str(<<"x">>)

-----------------------------------------------------------------------------
(* Claims about the text search_kb makes of a result (SpecSearchKb) *)

SearchKbReturned == nb = "search_kb" /\ kb_reply # Unset

(* the results the backend replied with *)
RepliedResults ==
    IF kb_reply.k = "ret" /\ "retrievalResults" \in DOMAIN kb_reply.v.m
    THEN kb_reply.v.m["retrievalResults"].items
    ELSE << >>

HasContentText(result) ==
    "content" \in DOMAIN result.m /\ "text" \in DOMAIN result.m["content"].m

(* an item of a content.text list that the claim speaks of: a raw string, *)
(* a span object whose span is a string, or an object without span        *)
SpanOrRawString(item) ==
    \/ item.t = "str"
    \/ item.t = "dict" /\ "span" \notin DOMAIN item.m
    \/ item.t = "dict" /\ "span" \in DOMAIN item.m /\ item.m["span"].t = "str"

(* the pieces of the spans and raw strings of a list, one after the other *)
RECURSIVE SpansInOrder(_)
SpansInOrder(items) ==
    IF items = << >> THEN << >>
    ELSE LET item == Head(items)
             pieces == IF item.t = "str" THEN item.s
                       ELSE IF "span" \in DOMAIN item.m THEN item.m["span"].s
                       ELSE << >>
         IN  pieces \o SpansInOrder(Tail(items))

(* the result is one of the cases of the claim *)
NormalizableResult(result) ==
    HasContentText(result) =>
        LET text == result.m["content"].m["text"]
        IN  \/ text.t = "str"
            \/ text.t = "list" /\ \A i \in 1..Len(text.items) : SpanOrRawString(text.items[i])

(* the passage text the claim states for a result *)
NormalizedText(result) ==
    IF ~HasContentText(result) THEN Str(<< >>)
    ELSE LET text == result.m["content"].m["text"]
         IN  IF text.t = "str" THEN text ELSE Str(SpansInOrder(text.items))

(* C21: search_kb's passage text is the concatenation in order of the     *)
(* spans and raw strings when content.text is a list of them, a span      *)
(* object without span contributing the empty string; it is the string    *)
(* itself when content.text is a plain string; it is the empty string,    *)
(* and nothing is raised, when the result has no content or no            *)
(* content.text                                                            *)
C21_PassageTextIsSpansInOrder ==
    (SearchKbReturned /\ kb_reply.k = "ret"
       /\ \A i \in 1..Len(RepliedResults) : NormalizableResult(RepliedResults[i])) =>
        /\ pc = "returned"
        /\ error = NoError
        /\ kp.out.k = "ret"
        /\ Len(kp.out.v.items) = Len(RepliedResults)
        /\ \A i \in 1..Len(RepliedResults) :
              kp.out.v.items[i] = NormalizedText(RepliedResults[i])

(* a span list with a raw string and an object without span, then a       *)
(* result without content.text, were turned into "xy" and ""              *)
C21_Witness ==
    /\ SearchKbReturned
    /\ Len(RepliedResults) = 2
    /\ HasContentText(RepliedResults[1])
    /\ RepliedResults[1].m["content"].m["text"] =
          List(<<Str(<<"x">>), Dict(EmptyMap), Dict([span |-> Str(<<"y">>)])>>)
    /\ RepliedResults[2] = NoTextResult
    /\ kp.out = Ret(List(<<Str(<<"x", "y">>), Str(<< >>)>>))

-----------------------------------------------------------------------------
(* Claims about the text invoke_converse returns (SpecInvokeConverse) *)

(* the content list of a 200 reply *)
ContentItems == llm_reply.v.m.output.m.message.m.content.items

LacksText(fragment) == "text" \notin DOMAIN fragment.m \/ fragment.m.text = None

(* C22: on an HTTP 200 response invoke_converse returns as text the       *)
(* concatenation, in content-list order, of the text of every fragment    *)
(* whose text is present and non-null, fragments whose text is null or    *)
(* absent being skipped; a content list whose fragments all lack text     *)
(* yields the empty string                                                 *)
C22_TextIsFragmentTextsInOrder ==
    (ConverseReturned /\ HasContentList(llm_reply)) =>
        /\ kp.out.k = "ret"
        /\ kp.out.v[1] = Str(FragmentTexts(ContentItems))
        /\ (\A i \in 1..Len(ContentItems) : LacksText(ContentItems[i])) =>
              kp.out.v[1] = Str(<< >>)

(* the fragments "y" then "x" came back as "yx" *)
C22_Witness ==
    /\ ConverseReturned
    /\ HasContentList(llm_reply)
    /\ ContentItems = <<Dict([text |-> Str(<<"y">>)]), Dict([text |-> Str(<<"x">>)])>>
    /\ kp.out.v[1] = Str(<<"y", "x">>)

-----------------------------------------------------------------------------
(* Claims about the number of backend requests (SpecRag) *)

(* the number of requests issued so far to one of the apis *)
CallsTo(apis) == Cardinality({i \in 1..Len(calls) : calls[i].api \in apis})

OneIfInvoked(reply) == IF reply = Unset THEN 0 ELSE 1

(* C23: no stage retries: in one invocation each of search_kb,            *)
(* retrieve_from_bedrock, rerank_results, invoke_converse,                *)
(* generate_response and apply_output_guardrail issues exactly one        *)
(* backend request, whether that request succeeds or fails                *)
C23_OneRequestPerInvocation ==
    /\ CallsTo({"retrieve"}) = OneIfInvoked(kb_reply)
    /\ CallsTo({"rerank"}) = OneIfInvoked(rerank_reply)
    /\ CallsTo({"converse", "invoke_endpoint"}) = OneIfInvoked(llm_reply)
    /\ CallsTo({"apply_guardrail"}) = OneIfInvoked(guardrail_reply)
    /\ Len(calls) = CallsTo({"retrieve", "rerank", "converse", "invoke_endpoint",
                             "apply_guardrail"})

(* the rerank request of a run failed, and it was the only rerank request *)
C23_Witness ==
    /\ nb = "converse_rerank"
    /\ rerank_reply # Unset
    /\ rerank_reply.k = "exc"
    /\ pc = "halted"
    /\ Len(calls) = 2
    /\ calls[2].api = "rerank"

-----------------------------------------------------------------------------
(* Claims about the failures of rerank_results (SpecConverse) *)

RerankInvoked == nb = "converse_rerank" /\ rerank_reply # Unset

(* the results the rerank backend replied with *)
RerankedItems ==
    IF rerank_reply.k = "ret" /\ "results" \in DOMAIN rerank_reply.v.m
    THEN rerank_reply.v.m["results"].items
    ELSE << >>

(* the index of a rerank result, 0 when it has none (line 372) *)
IndexOf(result) == IF "index" \in DOMAIN result.m THEN result.m["index"].n ELSE 0

(* C24: a rerank failure is not caught: an error raised by the rerank     *)
(* backend call, and an error raised while mapping a returned index that  *)
(* is beyond the end of the input list, propagate out of rerank_results   *)
(* to the caller, and no partially built reranked list is returned        *)
C24_RerankFailuresPropagate ==
    RerankInvoked =>
        /\ rerank_reply.k = "exc" =>
              /\ pc = "halted"
              /\ error = rerank_reply
              /\ reranked_json = Unset
        /\ (\E i \in 1..Len(RerankedItems) :
               IndexOf(RerankedItems[i]) >= Len(documents.items)) =>
              /\ pc = "halted"
              /\ error = Exc("IndexError", <<"list index out of range">>)
              /\ reranked_json = Unset

(* the second result's index was beyond the end of the passages, after a  *)
(* first one that was within: the call raised and returned nothing        *)
C24_Witness ==
    /\ RerankInvoked
    /\ Len(documents.items) = 2
    /\ Len(RerankedItems) = 2
    /\ IndexOf(RerankedItems[1]) = 1
    /\ IndexOf(RerankedItems[2]) = 2
    /\ pc = "halted"
    /\ error = Exc("IndexError", <<"list index out of range">>)
    /\ reranked_json = Unset

EmptyPassages == nb = "converse_rerank" /\ documents = List(<< >>)

(* C25: with an empty passage list rerank_results still issues the rerank *)
(* backend call, with an empty sources list, and applies no special case: *)
(* if the backend returns no results the reranked list is empty, and if   *)
(* the backend raises the error propagates                                 *)
C25_EmptyPassagesStillReranked ==
    EmptyPassages =>
        /\ pc = "rerank" \/ rerank_reply # Unset
        /\ rerank_reply # Unset =>
              /\ Len(calls) >= 2
              /\ calls[2].api = "rerank"
              /\ calls[2].sources = << >>
              /\ (rerank_reply.k = "ret" /\ RerankedItems = << >>) =>
                    /\ pc # "halted"
                    /\ reranked_json = Dict([original_results |-> List(<< >>),
                                             reranked_results |-> List(<< >>)])
              /\ rerank_reply.k = "exc" =>
                    /\ pc = "halted"
                    /\ error = rerank_reply
                    /\ reranked_json = Unset

(* the rerank backend was called with no sources and raised *)
C25_Witness ==
    /\ EmptyPassages
    /\ Len(calls) = 2
    /\ calls[2].api = "rerank"
    /\ calls[2].sources = << >>
    /\ rerank_reply = BackendError
    /\ pc = "halted"
    /\ error = BackendError

-----------------------------------------------------------------------------
(* Claims about the failures of generate_response (SpecRag) *)

(* generate_response was called and raised *)
GenerateFailed ==
    /\ nb \in {"sagemaker_boto3", "guardrail"}
    /\ prompt # Unset
    /\ answer = Unset
    /\ pc = "halted"

(* the text of the cause of a failure on a reply of the endpoint: the     *)
(* failed call, the unparsable body, the empty list, the missing key, the *)
(* item that cannot be subscripted, the function's own error              *)
CauseText(reply) ==
    IF reply.k = "exc" THEN reply.msg
    ELSE LET body == reply.v
         IN  CASE body = NotJson -> <<"Expecting value: line 1 column 1 (char 0)">>
               [] body.t = "list" /\ body.items = << >> -> <<"list index out of range">>
               [] body.t = "list" /\ body.items # << >> /\ body.items[1].t = "dict" ->
                     <<"'", "generated_text", "'">>
               [] body.t = "dict" -> <<"Unexpected response format">>
               [] OTHER -> << >>

(* the failures the claim lists *)
ListedFailure(reply) ==
    \/ reply.k = "exc"
    \/ reply.v = NotJson
    \/ reply.v.t = "list" /\ (reply.v.items = << >> \/ reply.v.items[1].t = "dict")
    \/ reply.v.t = "dict"

(* C26: every failure inside generate_response reaches the caller as one  *)
(* error whose message is "Generation failed: " followed by the text of   *)
(* the underlying cause: a failed endpoint call, an unparsable body, an   *)
(* empty list, a missing key, and the function's own "Unexpected response *)
(* format" error, which the same handler catches and wraps                *)
C26_EveryFailureIsWrapped ==
    GenerateFailed =>
        /\ error.k = "exc"
        /\ error.exc = "RuntimeError"
        /\ error.msg # << >>
        /\ error.msg[1] = "Generation failed: "
        /\ (llm_reply # Unset /\ ListedFailure(llm_reply)) =>
              error.msg = <<"Generation failed: ">> \o CauseText(llm_reply)

(* C26 as amended: every failure inside generate_response's try block,    *)
(* the listed ones included, reaches the caller as RuntimeError           *)
(* "Generation failed: " followed by the text of the cause; a failure to  *)
(* create the runtime client, which happens before the try block and      *)
(* before any request, reaches the caller as it was raised                *)
C26_FailuresOfTheTryBlockAreWrapped ==
    GenerateFailed =>
        IF llm_reply = Unset
        THEN /\ error = NoRegionError
             /\ \A i \in 1..Len(calls) : calls[i].api # "invoke_endpoint"
        ELSE /\ error.k = "exc"
             /\ error.exc = "RuntimeError"
             /\ error.msg # << >>
             /\ error.msg[1] = "Generation failed: "
             /\ ListedFailure(llm_reply) =>
                   error.msg = <<"Generation failed: ">> \o CauseText(llm_reply)

(* the endpoint replied with a mapping that has neither key, and the      *)
(* function's own error came out wrapped                                   *)
C26_Witness ==
    /\ GenerateFailed
    /\ llm_reply = Ret(Dict([error |-> Str(<<"x">>)]))
    /\ error = Exc("RuntimeError", <<"Generation failed: ", "Unexpected response format">>)

-----------------------------------------------------------------------------
(* Claims about the endpoint Lab 1.7 selects and saves (SpecSetup) *)

Lab17 == kernel["lab_1_7"]

EndpointSelected == Lab17.listing # Unset

(* the names a listing replied with, none when it failed *)
ListedNames(reply) ==
    IF reply.k = "exc" THEN << >>
    ELSE [i \in 1..Len(reply.v.m["Endpoints"].items) |->
             reply.v.m["Endpoints"].items[i].m["EndpointName"]]

Matching(name) == \E i \in 1..Len(name.s) : name.s[i] = EndpointMarker

(* the first listed name that contains the model's name, None without one *)
FirstMatching(names) ==
    IF \E i \in 1..Len(names) : Matching(names[i])
    THEN names[CHOOSE i \in 1..Len(names) :
                 /\ Matching(names[i])
                 /\ \A j \in 1..(i - 1) : ~Matching(names[j])]
    ELSE None

(* C27: a deployment is attempted only when the first listing found no    *)
(* endpoint whose name contains 'llama-3-2-3b-instruct' (or failed);      *)
(* after the cell llm_endpoint_name is the first matching existing        *)
(* endpoint, or the newly deployed endpoint's name, or a matching         *)
(* endpoint found by the fallback listing, or None; and the value saved   *)
(* under sagemakerLLMEndpoint is always a usable endpoint name, never     *)
(* None                                                                    *)
C27_SavedEndpointIsNeverNone ==
    EndpointSelected =>
        /\ Lab17.deployment # Unset => FirstMatching(ListedNames(Lab17.listing)) = None
        /\ Lab17.llm_endpoint_name =
              IF FirstMatching(ListedNames(Lab17.listing)) # None
              THEN FirstMatching(ListedNames(Lab17.listing))
              ELSE IF Lab17.deployment.k = "ret" THEN Lab17.deployment.v
              ELSE FirstMatching(ListedNames(Lab17.fallback))
        /\ Lab17.pc = "end" => Lab17.llm_endpoint_name # None
        /\ (Lab17.pc = "end" /\ "sagemakerLLMEndpoint" \in DOMAIN variables_json.m) =>
              variables_json.m["sagemakerLLMEndpoint"] # None

-----------------------------------------------------------------------------
(* Claims about the evaluation loop (SpecEvaluation) *)

(* the three accuracy metrics of a report, floats rounded to two places *)
MetricsOf(report) ==
    Dict([key \in MetricNames |->
            IF report.m[key].t = "float"
            THEN Float(((report.m[key].thousandths + 5) \div 10) * 10)
            ELSE report.m[key]])

(* C28: the accuracy metrics stored in final_evaluation[model] are always *)
(* those of the report the evaluator produced for that same model: a      *)
(* model for which the evaluator returned no report is never recorded     *)
(* with the metrics of a model evaluated earlier, and the loop does not   *)
(* fail                                                                    *)
C28_MetricsAreOfTheSameModel ==
    /\ Evaluation.pc # "halted"
    /\ \A model \in DOMAIN Evaluation.final_evaluation.m :
          /\ Evaluation.reports[model] # None
          /\ Evaluation.final_evaluation.m[model] = MetricsOf(Evaluation.reports[model])

-----------------------------------------------------------------------------
(* Claims about the two generation paths of Lab 1.7 (SpecRag) *)

(* the LangChain chain called the endpoint with a body generate_response  *)
(* accepts                                                                 *)
ChainGotAcceptedBody ==
    /\ nb = "sagemaker_langchain"
    /\ llm_reply # Unset
    /\ generate_response(llm_reply).k = "ret"

(* every request to the endpoint, of either path, has the body            *)
(* {inputs: prompt, parameters: generation_configuration}                 *)
SameRequestBody ==
    \A i \in 1..Len(calls) :
        calls[i].api = "invoke_endpoint" =>
            calls[i].Body = [inputs |-> prompt, parameters |-> generation_configuration]

(* C29: the LangChain path and the boto3 path of Lab 1.7 do the same: for *)
(* every endpoint body generate_response accepts (a list with             *)
(* generated_text, a mapping with generated_text, a mapping with          *)
(* generation) ContentHandler.transform_output returns the same text, and *)
(* both paths send the request body {inputs: prompt, parameters:          *)
(* generation_configuration}                                               *)
C29_TransformOutputAgreesWithGenerateResponse ==
    /\ SameRequestBody
    /\ ChainGotAcceptedBody =>
          /\ pc = "done"
          /\ answer = generate_response(llm_reply).v

(* C29 as amended: both paths send the same request body;                 *)
(* transform_output returns the text generate_response returns only for a *)
(* mapping with generated_text; for a list it raises TypeError and for a  *)
(* mapping with generation alone KeyError, where generate_response        *)
(* returns a text                                                          *)
C29_TransformOutputAgreesOnGeneratedTextMappings ==
    /\ SameRequestBody
    /\ ChainGotAcceptedBody =>
          IF llm_reply.v.t = "dict" /\ "generated_text" \in DOMAIN llm_reply.v.m
          THEN /\ pc = "done"
               /\ answer = generate_response(llm_reply).v
          ELSE /\ pc = "halted"
               /\ answer = Unset
               /\ error.exc = IF llm_reply.v.t = "list" THEN "TypeError" ELSE "KeyError"

(* the chain got a list with generated_text, which generate_response      *)
(* accepts, and raised                                                     *)
C29_Witness ==
    /\ ChainGotAcceptedBody
    /\ llm_reply = Ret(List(<<Dict([generated_text |-> Str(<<"x">>)])>>))
    /\ generate_response(llm_reply) = Ret(Str(<<"x">>))
    /\ pc = "halted"
    /\ error.exc = "TypeError"
====
